---- MODULE Spec2Model ----
(***************************************************************************)
(* Model of the tfman decision engine: the command parser, the            *)
(* operate-command dispatcher, the target validator, the change impact    *)
(* resolver and the dependency-graph builder.                              *)
(*                                                                         *)
(* Strings of the program are sequences of one-character strings, so that *)
(* tokenizing, prefix matching, joining and splitting are computed and    *)
(* not assumed.                                                            *)
(***************************************************************************)
EXTENDS Integers, Sequences, FiniteSets, TLC

VARIABLES
  pc,            \* position of the invocation under study
  commentBody,   \* operate-command: the --comment-body argument
  calls,         \* operate-command: collaborator calls made so far, in order
  opResult,      \* operate-command: the value run() resolved to
  depsFile,      \* the .tfdeps.json snapshot on disk
  changedFiles,  \* output of the two-commit diff
  rsResult,      \* resolver: result of calculateExecutionPaths
  targetsInput,  \* select-targets: the --targets argument
  stResult,      \* select-targets: outcome of selectTargets
  roots,         \* generate-deps: the discovered roots
  tasks,         \* generate-deps: per-root analysis task state
  exitCode,      \* generate-deps: process exit status (-1 while running)
  writes,        \* generate-deps: number of writeFile calls
  callArgs,      \* module extraction: the arguments of the call under study
  callResult     \* module extraction: what the call returned

vars == <<pc, commentBody, calls, opResult, depsFile, changedFiles, rsResult,
          targetsInput, stResult, roots, tasks, exitCode, writes,
          callArgs, callResult>>

commandVars == <<commentBody, calls, opResult>>
selectVars == <<targetsInput, stResult>>
buildVars == <<roots, tasks, exitCode, writes>>
callVars == <<callArgs, callResult>>

(***************************************************************************)
(* Bounds                                                                  *)
(***************************************************************************)
MaxTail == 4      \* characters typed after the command prefix
MaxInput == 5     \* characters of the --targets argument
MaxFiles == 2     \* changed files in a diff
MaxDirs == 2      \* roots in a loaded snapshot
MaxMods == 2      \* modules in a loaded snapshot
MaxUsedIn == 2    \* consumers listed for one module
MaxRoots == 2     \* roots discovered by one graph build
MaxEntries == 2   \* module entries printed by `terraform modules -json`
MaxIgnore == 4    \* characters of the ignore file
MaxRoles == 2     \* keys of the permission file
MaxDepth == 2     \* directory levels below the scanned root
MaxTreeDirs == 3  \* directories below the scanned root
MaxPatterns == 2  \* patterns in the ignore set

(***************************************************************************)
(* Characters and strings                                                  *)
(***************************************************************************)
\* JavaScript \s restricted to the characters that occur in the model
WhiteSpace == {" ", "\t", "\n", "\r"}

\* JavaScript \w
WordChars ==
  {"a","b","c","d","e","f","g","h","i","j","k","l","m","n","o","p","q","r",
   "s","t","u","v","w","x","y","z",
   "A","B","C","D","E","F","G","H","I","J","K","L","M","N","O","P","Q","R",
   "S","T","U","V","W","X","Y","Z",
   "0","1","2","3","4","5","6","7","8","9","_"}

\* String.prototype.startsWith
StartsWith(s, p) == Len(p) <= Len(s) /\ SubSeq(s, 1, Len(p)) = p

\* first index >= from at which s holds the character c, 0 if none
RECURSIVE IndexFrom(_, _, _)
IndexFrom(s, c, from) ==
  IF from > Len(s) THEN 0
  ELSE IF s[from] = c THEN from
  ELSE IndexFrom(s, c, from + 1)

\* the elements concatenated with the separator left out
RECURSIVE M_Join(_, _)
M_Join(list, sep) ==
  IF list = <<>> THEN <<>>
  ELSE IF Len(list) = 1 THEN list[1]
  ELSE list[1] \o M_Join(Tail(list), sep)

\* Array.prototype.join
RECURSIVE Join(_, _)
Join(list, sep) ==
  IF list = <<>> THEN <<>>
  ELSE IF Len(list) = 1 THEN list[1]
  ELSE list[1] \o sep \o Join(Tail(list), sep)

\* String.prototype.trim
RECURSIVE TrimLeft(_)
TrimLeft(s) ==
  IF s # <<>> /\ s[1] \in WhiteSpace THEN TrimLeft(Tail(s)) ELSE s

RECURSIVE TrimRight(_)
TrimRight(s) ==
  IF s # <<>> /\ s[Len(s)] \in WhiteSpace
  THEN TrimRight(SubSeq(s, 1, Len(s) - 1)) ELSE s

Trim(s) == TrimRight(TrimLeft(s))

\* first index at which the pattern \r?\n matches, 0 if none
RECURSIVE LineBreakFrom(_, _)
LineBreakFrom(s, i) ==
  IF i > Len(s) THEN 0
  ELSE IF s[i] = "\n" THEN i
  ELSE IF s[i] = "\r" /\ i < Len(s) /\ s[i + 1] = "\n" THEN i
  ELSE LineBreakFrom(s, i + 1)

\* s.split(/\r?\n/)[0]
FirstLine(s) ==
  LET b == LineBreakFrom(s, 1)
  IN  IF b = 0 THEN s ELSE SubSeq(s, 1, b - 1)

\* end of the maximal run of non-whitespace characters starting at p
RECURSIVE RunEnd(_, _)
RunEnd(s, p) ==
  IF p < Len(s) /\ s[p + 1] \notin WhiteSpace THEN RunEnd(s, p + 1) ELSE p

\* s.split(/\s+/).filter(Boolean)
RECURSIVE SplitWs(_, _)
SplitWs(s, p) ==
  IF p > Len(s) THEN <<>>
  ELSE IF s[p] \in WhiteSpace THEN SplitWs(s, p + 1)
  ELSE LET e == RunEnd(s, p)
       IN  <<SubSeq(s, p, e)>> \o SplitWs(s, e + 1)

(***************************************************************************)
(* Messages: a fixed text with one interpolated string                     *)
(***************************************************************************)
Msg(text, arg) == [text |-> text, arg |-> arg]

EmptyMessage == Msg("", <<>>)

(***************************************************************************)
(* Command parser (lib/ops/command-parser.mjs)                             *)
(***************************************************************************)
TRIGGER == <<"$","t","e","r","r","a","f","o","r","m">>
APPLY == <<"a","p","p","l","y">>
PLAN == <<"p","l","a","n">>
HELP == <<"h","e","l","p">>

getHelpMessage == Msg("### :robot: Terraform Bot Usage", <<>>)

\* parseCommand returning null
Null == [null |-> TRUE]

\* the global regex /"([^"]+)"|'([^']+)'|([^\s]+)/g applied from index p on,
\* each match contributing match[1] || match[2] || match[3]
RECURSIVE TokenizeFrom(_, _)
TokenizeFrom(s, p) ==
  IF p > Len(s) THEN <<>>
  ELSE
    LET dq == IF s[p] = "\"" THEN IndexFrom(s, "\"", p + 1) ELSE 0
        sq == IF s[p] = "'" THEN IndexFrom(s, "'", p + 1) ELSE 0
    IN  IF dq > p + 1
          THEN <<SubSeq(s, p + 1, dq - 1)>> \o TokenizeFrom(s, dq + 1)
        ELSE IF sq > p + 1
          THEN <<SubSeq(s, p + 1, sq - 1)>> \o TokenizeFrom(s, sq + 1)
        ELSE IF s[p] \notin WhiteSpace
          THEN LET e == RunEnd(s, p)
               IN  <<SubSeq(s, p, e)>> \o TokenizeFrom(s, e + 1)
        ELSE TokenizeFrom(s, p + 1)

\* the args array built from the first line of the trimmed body
CommandArgs(body) == TokenizeFrom(FirstLine(Trim(body)), 1)

\* /^[\w\-\/]+$/.test(arg)
M_ValidTarget(arg) ==
  arg # <<>> /\ \E i \in 1..Len(arg) : arg[i] \in WordChars \cup {"-", "/"}

ValidTarget(arg) ==
  arg # <<>> /\ \A i \in 1..Len(arg) : arg[i] \in WordChars \cup {"-", "/"}

InvalidTargetMessage(arg) == Msg("Invalid target path provided: \"${arg}\". Only alphanumeric characters, \"-\", and \"/\" are allowed.", arg)

\* the loop over args[2..]: the first invalid argument aborts with an error
RECURSIVE ParseTargets(_, _, _, _)
ParseTargets(command, args, i, targets) ==
  IF i > Len(args) THEN [command |-> command, targets |-> targets]
  ELSE IF ~ValidTarget(args[i])
    THEN [command |-> "error", targets |-> <<>>,
          message |-> InvalidTargetMessage(args[i])]
  ELSE ParseTargets(command, args, i + 1, Append(targets, args[i]))

\* an unknown second token reported as an error instead of being ignored
M_parseCommand(body) ==
  IF body = <<>> THEN Null
  ELSE
    LET args == CommandArgs(body)
    IN  IF Len(args) < 2 \/ args[1] # TRIGGER THEN Null
        ELSE IF args[2] = APPLY THEN ParseTargets("apply", args, 3, <<>>)
        ELSE IF args[2] = PLAN THEN ParseTargets("plan", args, 3, <<>>)
        ELSE IF args[2] = HELP
          THEN [command |-> "help", targets |-> <<>>,
                message |-> getHelpMessage]
        ELSE [command |-> "error", targets |-> <<>>,
              message |-> InvalidTargetMessage(args[2])]

parseCommand(body) ==
  IF body = <<>> THEN Null
  ELSE
    LET args == CommandArgs(body)
    IN  IF Len(args) < 2 \/ args[1] # TRIGGER THEN Null
        ELSE IF args[2] = APPLY THEN ParseTargets("apply", args, 3, <<>>)
        ELSE IF args[2] = PLAN THEN ParseTargets("plan", args, 3, <<>>)
        ELSE IF args[2] = HELP
          THEN [command |-> "help", targets |-> <<>>,
                message |-> getHelpMessage]
        ELSE Null

(***************************************************************************)
(* Ordering of strings (UTF-16 code units of the characters in use)        *)
(***************************************************************************)
CodeUnit(c) ==
  CASE c = " " -> 32
    [] c = "-" -> 45
    [] c = "." -> 46
    [] c = "/" -> 47
    [] c = "a" -> 97
    [] c = "b" -> 98
    [] c = "c" -> 99
    [] c = "m" -> 109
    [] c = "n" -> 110
    [] c = "x" -> 120
    [] OTHER -> 0

\* s sorts strictly before t (Array.prototype.sort default comparison)
RECURSIVE StrLess(_, _)
StrLess(s, t) ==
  IF t = <<>> THEN FALSE
  ELSE IF s = <<>> THEN TRUE
  ELSE IF CodeUnit(s[1]) < CodeUnit(t[1]) THEN TRUE
  ELSE IF CodeUnit(s[1]) > CodeUnit(t[1]) THEN FALSE
  ELSE StrLess(Tail(s), Tail(t))

(***************************************************************************)
(* Insertion-ordered collections (JavaScript Set and Map)                  *)
(***************************************************************************)
Range(seq) == {seq[i] : i \in 1..Len(seq)}

NoDuplicates(seq) ==
  \A i, j \in 1..Len(seq) : seq[i] = seq[j] => i = j

\* Set.prototype.add
M_SetAdd(seq, x) == Append(seq, x)

SetAdd(seq, x) == IF x \in Range(seq) THEN seq ELSE Append(seq, x)

\* new Set(iterable)
RECURSIVE ToSet(_)
ToSet(seq) ==
  IF seq = <<>> THEN <<>>
  ELSE SetAdd(ToSet(SubSeq(seq, 1, Len(seq) - 1)), seq[Len(seq)])

(***************************************************************************)
(* The dependency graph snapshot                                           *)
(***************************************************************************)
Slash == <<"/">>

\* keys of the Map/Set filled from depsData.dirs, in insertion order
RECURSIVE KnownRoots(_)
KnownRoots(dirs) ==
  IF dirs = <<>> THEN <<>>
  ELSE LET rest == KnownRoots(SubSeq(dirs, 1, Len(dirs) - 1))
           item == dirs[Len(dirs)]
       IN  IF item.path # <<>> THEN SetAdd(rest, item.path) ELSE rest

\* rootProviders.get(p) || []: the last entry set for the key; an entry with
\* an empty path is never set
RECURSIVE ProvidersOf(_, _)
ProvidersOf(dirs, p) ==
  IF dirs = <<>> THEN <<>>
  ELSE IF dirs[Len(dirs)].path # <<>> /\ dirs[Len(dirs)].path = p
    THEN dirs[Len(dirs)].providers
  ELSE ProvidersOf(SubSeq(dirs, 1, Len(dirs) - 1), p)

\* keys of moduleUsageMap, in insertion order
RECURSIVE ModuleKeys(_)
ModuleKeys(modules) ==
  IF modules = <<>> THEN <<>>
  ELSE LET rest == ModuleKeys(SubSeq(modules, 1, Len(modules) - 1))
           m == modules[Len(modules)]
       IN  IF m.source # <<>> THEN SetAdd(rest, m.source) ELSE rest

\* moduleUsageMap.get(source): new Set(usedIn) of the last entry set
RECURSIVE Consumers(_, _)
Consumers(modules, source) ==
  IF modules = <<>> THEN <<>>
  ELSE IF modules[Len(modules)].source = source
    THEN ToSet(modules[Len(modules)].usedIn)
  ELSE Consumers(SubSeq(modules, 1, Len(modules) - 1), source)

(***************************************************************************)
(* Change Impact Resolver (lib/ops/change-detector.mjs)                    *)
(***************************************************************************)
\* insert x behind every element at least as long (stable, descending)
RECURSIVE InsertByLength(_, _)
InsertByLength(sorted, x) ==
  IF sorted = <<>> THEN <<x>>
  ELSE IF Len(sorted[1]) >= Len(x)
    THEN <<sorted[1]>> \o InsertByLength(Tail(sorted), x)
  ELSE <<x>> \o sorted

\* the keys left in the order of the snapshot
M_SortedModules(keys) == keys

\* keys.sort((a, b) => b.length - a.length)
RECURSIVE SortedModules(_)
SortedModules(keys) ==
  IF keys = <<>> THEN <<>>
  ELSE InsertByLength(SortedModules(SubSeq(keys, 1, Len(keys) - 1)),
                      keys[Len(keys)])

\* the same search with the path separator left out of the comparison
M_FirstPrefix(file, prefixes) ==
  LET hits == {i \in 1..Len(prefixes) : StartsWith(file, prefixes[i])}
  IN  IF hits = {} THEN <<>>
      ELSE prefixes[CHOOSE i \in hits : \A j \in hits : i <= j]

\* the first element p of prefixes with file.startsWith(p + '/'), <<>> if none
RECURSIVE FirstPrefix(_, _)
FirstPrefix(file, prefixes) ==
  IF prefixes = <<>> THEN <<>>
  ELSE IF StartsWith(file, prefixes[1] \o Slash) THEN prefixes[1]
  ELSE FirstPrefix(file, Tail(prefixes))

\* one iteration of the loop over changedFiles
M_IdentifyFile(acc, file, knownRoots, sortedModules) ==
  LET root == FirstPrefix(file, knownRoots)
      mod == FirstPrefix(file, sortedModules)
      withRoot == IF root # <<>>
                  THEN [acc EXCEPT !.affectedRoots = SetAdd(@, root)]
                  ELSE acc
  IN  IF mod # <<>>
      THEN [withRoot EXCEPT !.changedModules = SetAdd(@, mod)]
      ELSE withRoot

IdentifyFile(acc, file, knownRoots, sortedModules) ==
  LET root == FirstPrefix(file, knownRoots)
      mod == FirstPrefix(file, sortedModules)
  IN  IF root # <<>>
        THEN [acc EXCEPT !.affectedRoots = SetAdd(@, root)]
      ELSE IF mod # <<>>
        THEN [acc EXCEPT !.changedModules = SetAdd(@, mod)]
      ELSE acc

\* the loop over changedFiles: affected roots and changed modules
RECURSIVE IdentifyChanges(_, _, _)
IdentifyChanges(files, knownRoots, sortedModules) ==
  IF files = <<>> THEN [affectedRoots |-> <<>>, changedModules |-> <<>>]
  ELSE IdentifyFile(
         IdentifyChanges(SubSeq(files, 1, Len(files) - 1),
                         knownRoots, sortedModules),
         files[Len(files)], knownRoots, sortedModules)

\* the inner loop: every consumer not yet affected is added
M_AddConsumers(affected, consumers) ==
  IF consumers = <<>> THEN affected ELSE SetAdd(affected, consumers[1])

RECURSIVE AddConsumers(_, _)
AddConsumers(affected, consumers) ==
  IF consumers = <<>> THEN affected
  ELSE AddConsumers(SetAdd(affected, consumers[1]), Tail(consumers))

\* the loop over changedModules
RECURSIVE ResolveModuleDependencies(_, _, _)
ResolveModuleDependencies(affected, changedModules, modules) ==
  IF changedModules = <<>> THEN affected
  ELSE ResolveModuleDependencies(
         AddConsumers(affected, Consumers(modules, changedModules[1])),
         Tail(changedModules), modules)

\* Array.from(affectedRoots).map(p => ({path, providers}))
MatrixEntries(paths, dirs) ==
  [i \in 1..Len(paths) |->
     [path |-> paths[i], providers |-> ProvidersOf(dirs, paths[i])]]

calculateExecutionPaths(files, depsData) ==
  LET knownRoots == KnownRoots(depsData.dirs)
      sortedModules == SortedModules(ModuleKeys(depsData.modules))
      changes == IdentifyChanges(files, knownRoots, sortedModules)
      affected == ResolveModuleDependencies(changes.affectedRoots,
                     changes.changedModules, depsData.modules)
  IN  MatrixEntries(affected, depsData.dirs)

(***************************************************************************)
(* Target Validator (lib/ops/target-selector.mjs)                          *)
(***************************************************************************)
\* every trailing slash is removed, not just one
RECURSIVE M_StripTrailingSlash(_)
M_StripTrailingSlash(t) ==
  IF t # <<>> /\ t[Len(t)] = "/"
  THEN M_StripTrailingSlash(SubSeq(t, 1, Len(t) - 1))
  ELSE t

\* t.replace(/\/$/, '')
StripTrailingSlash(t) ==
  IF t # <<>> /\ t[Len(t)] = "/" THEN SubSeq(t, 1, Len(t) - 1) ELSE t

RECURSIVE resolveTargets(_, _)
resolveTargets(targets, depsData) ==
  IF targets = <<>> THEN [includeList |-> <<>>, failedTargets |-> <<>>]
  ELSE
    LET rest == resolveTargets(SubSeq(targets, 1, Len(targets) - 1), depsData)
        t == targets[Len(targets)]
        tStripped == StripTrailingSlash(t)
        known == Range(KnownRoots(depsData.dirs))
    IN  IF t \in known
          THEN [rest EXCEPT !.includeList = Append(@,
                  [path |-> t, providers |-> ProvidersOf(depsData.dirs, t)])]
        ELSE IF tStripped \in known
          THEN [rest EXCEPT !.includeList = Append(@,
                  [path |-> tStripped,
                   providers |-> ProvidersOf(depsData.dirs, tStripped)])]
        ELSE [rest EXCEPT !.failedTargets = Append(@, t)]

(***************************************************************************)
(* Outcomes of operations that may throw                                   *)
(***************************************************************************)
Ok(v) == [ok |-> TRUE, value |-> v]
Err(m) == [ok |-> FALSE, error |-> m]

(***************************************************************************)
(* Snapshot file access (lib/utils.mjs)                                    *)
(***************************************************************************)
DepsFilePath == <<".","t","f","d","e","p","s",".","j","s","o","n">>

Absent == [state |-> "absent"]
Malformed == [state |-> "malformed"]
\* the path exists but cannot be read as a file (a directory: EISDIR)
Unreadable == [state |-> "unreadable"]
Snapshot(data) == [state |-> "ok", data |-> data]

\* the decode branch left out: the parser's own error is rethrown
M_loadJson(file, filePath) ==
  IF file.state = "absent"
    THEN Err(Msg("File not found: ${filePath}", filePath))
  ELSE IF file.state = "malformed"
    THEN Err(Msg("${error.message}", <<>>))
  ELSE IF file.state = "unreadable"
    THEN Err(Msg("EISDIR: illegal operation on a directory, read", <<>>))
  ELSE Ok(file.data)

loadJson(file, filePath) ==
  IF file.state = "absent"
    THEN Err(Msg("File not found: ${filePath}", filePath))
  ELSE IF file.state = "malformed"
    THEN Err(Msg("Failed to decode JSON from ${filePath}: ${error.message}",
                 filePath))
  ELSE IF file.state = "unreadable"
    THEN Err(Msg("EISDIR: illegal operation on a directory, read", <<>>))
  ELSE Ok(file.data)

(***************************************************************************)
(* selectTargets and detectChanges                                         *)
(***************************************************************************)
NotFoundMessage(failedTargets) ==
  Msg("The following targets were not found in .tfdeps.json: ${failedTargets.join(', ')}",
      Join(failedTargets, <<",", " ">>))

M_selectTargets(input, file) ==
  IF input = <<>>
    THEN Err(Msg("Missing required argument: targets", <<>>))
  ELSE
    LET loaded == loadJson(file, DepsFilePath)
    IN  IF ~loaded.ok THEN loaded
        ELSE Ok(resolveTargets(SplitWs(input, 1), loaded.value).includeList)

selectTargets(input, file) ==
  IF input = <<>>
    THEN Err(Msg("Missing required argument: targets", <<>>))
  ELSE
    LET loaded == loadJson(file, DepsFilePath)
    IN  IF ~loaded.ok THEN loaded
        ELSE LET r == resolveTargets(SplitWs(input, 1), loaded.value)
             IN  IF Len(r.failedTargets) > 0
                 THEN Err(NotFoundMessage(r.failedTargets))
                 ELSE Ok(r.includeList)

\* base and head are present; the diff is the changed-file list
detectChanges(files, file) ==
  LET loaded == loadJson(file, DepsFilePath)
  IN  IF ~loaded.ok THEN loaded
      ELSE Ok(calculateExecutionPaths(files, loaded.value))

(***************************************************************************)
(* operate-command (cli/commands/operate-command.mjs)                      *)
(***************************************************************************)
\* the error result without its done flag set
M_OpError(message) ==
  [command |-> "error", targets |-> <<>>, message |-> message, done |-> FALSE]

OpError(message) ==
  [command |-> "error", targets |-> <<>>, message |-> message, done |-> TRUE]

\* the empty-list check left out: an empty list is returned as the targets
M_DispatchUnchecked(parsed, files, file) ==
  LET useSelect == Len(parsed.targets) > 0
      joined == Join(parsed.targets, <<" ">>)
      call == IF useSelect
              THEN [fn |-> "selectTargets", arg |-> joined]
              ELSE [fn |-> "detectChanges", arg |-> <<"base-sha", "head-sha">>]
      outcome == IF useSelect THEN selectTargets(joined, file)
                 ELSE detectChanges(files, file)
      result ==
        IF ~outcome.ok THEN OpError(outcome.error)
        ELSE [command |-> parsed.command, targets |-> outcome.value,
              message |-> EmptyMessage, done |-> FALSE]
  IN  [result |-> result, calls |-> <<call>>]

\* both collaborators are awaited when targets were given
M_Dispatch(parsed, files, file) ==
  LET useSelect == Len(parsed.targets) > 0
      joined == Join(parsed.targets, <<" ">>)
      detect == [fn |-> "detectChanges", arg |-> <<"base-sha", "head-sha">>]
      outcome == IF useSelect THEN selectTargets(joined, file)
                 ELSE detectChanges(files, file)
      result ==
        IF ~outcome.ok THEN OpError(outcome.error)
        ELSE IF Len(outcome.value) = 0
          THEN OpError(Msg("No Terraform directories matched the criteria.",
                           <<>>))
        ELSE [command |-> parsed.command, targets |-> outcome.value,
              message |-> EmptyMessage, done |-> FALSE]
  IN  [result |-> result,
       calls |-> IF useSelect
                 THEN <<detect, [fn |-> "selectTargets", arg |-> joined]>>
                 ELSE <<detect>>]

\* the try block: exactly one collaborator is awaited
Dispatch(parsed, files, file) ==
  LET useSelect == Len(parsed.targets) > 0
      joined == Join(parsed.targets, <<" ">>)
      call == IF useSelect
              THEN [fn |-> "selectTargets", arg |-> joined]
              ELSE [fn |-> "detectChanges", arg |-> <<"base-sha", "head-sha">>]
      outcome == IF useSelect THEN selectTargets(joined, file)
                 ELSE detectChanges(files, file)
      result ==
        IF ~outcome.ok THEN OpError(outcome.error)
        ELSE IF Len(outcome.value) = 0
          THEN OpError(Msg("No Terraform directories matched the criteria.",
                           <<>>))
        ELSE [command |-> parsed.command, targets |-> outcome.value,
              message |-> EmptyMessage, done |-> FALSE]
  IN  [result |-> result, calls |-> <<call>>]

\* run(args) with the parser's error result handed to the try block
M_run(body, files, file) ==
  LET parsed == parseCommand(body)
  IN  IF body = <<>>
        THEN [result |-> Err(Msg("Missing required argument: ${arg}",
                                 <<"comment-body">>)),
              calls |-> <<>>]
      ELSE IF parsed = Null
        THEN [result |-> OpError(Msg("Not a valid command.", <<>>)),
              calls |-> <<>>]
      ELSE IF parsed.command = "help"
        THEN [result |-> [command |-> "help", targets |-> <<>>,
                          message |-> parsed.message, done |-> TRUE],
              calls |-> <<>>]
      ELSE Dispatch([command |-> parsed.command, targets |-> <<>>],
                    files, file)

\* run(args) with base-sha and head-sha given: requireArgs rejects an empty
\* comment-body, every other body is parsed
run(body, files, file) ==
  LET parsed == parseCommand(body)
  IN  IF body = <<>>
        THEN [result |-> Err(Msg("Missing required argument: ${arg}",
                                 <<"comment-body">>)),
              calls |-> <<>>]
      ELSE IF parsed = Null
        THEN [result |-> OpError(Msg("Not a valid command.", <<>>)),
              calls |-> <<>>]
      ELSE IF parsed.command = "error"
        THEN [result |-> OpError(IF parsed.message # EmptyMessage
                                 THEN parsed.message
                                 ELSE Msg("Invalid command.", <<>>)),
              calls |-> <<>>]
      ELSE IF parsed.command = "help"
        THEN [result |-> [command |-> "help", targets |-> <<>>,
                          message |-> parsed.message, done |-> TRUE],
              calls |-> <<>>]
      ELSE Dispatch(parsed, files, file)

(***************************************************************************)
(* Input universes                                                         *)
(***************************************************************************)
P_a == <<"a">>
P_ab == <<"a","/","b">>
P_c == <<"c">>
P_m == <<"m">>
P_mn == <<"m","/","n">>
P_am == <<"a","/","m">>

RootPaths == {P_a, P_ab, P_c}
ModSources == {P_m, P_mn, P_am}
ConsumerPaths == {P_a, P_c}

FilePaths ==
  {<<"a","/","x">>, <<"a","/","b","/","x">>, <<"c","/","x">>,
   <<"m","/","x">>, <<"m","/","n","/","x">>, <<"a","/","m","/","x">>,
   <<"a","b","/","x">>}

ProvidersFor(p) ==
  IF p = P_a THEN <<"aws">>
  ELSE IF p = P_ab THEN <<"google">>
  ELSE <<"aws", "google">>

\* sequences over S of length lo..hi
SeqsOf(S, lo, hi) == UNION {[1..n -> S] : n \in lo..hi}

DirLists ==
  {[i \in 1..Len(ps) |-> [path |-> ps[i], providers |-> ProvidersFor(ps[i])]] :
     ps \in {q \in SeqsOf(RootPaths, 0, MaxDirs) : NoDuplicates(q)}}

\* consumer lists name each root once, in any order
ModuleRecords ==
  [source : ModSources,
   usedIn : {u \in SeqsOf(ConsumerPaths, 1, MaxUsedIn) : NoDuplicates(u)}]

\* module lists as the builder writes them: distinct sources, sorted
ModuleLists ==
  {ms \in SeqsOf(ModuleRecords, 0, MaxMods) :
     \A i, j \in 1..Len(ms) : i < j => StrLess(ms[i].source, ms[j].source)}

Graphs == [dirs : DirLists, modules : ModuleLists]

\* snapshots of a workspace whose own directory is a root: its path is empty
EmptyPathGraphs ==
  {[dirs |-> <<[path |-> <<>>, providers |-> <<"aws">>]>>,
    modules |-> <<[source |-> P_m, usedIn |-> << <<>> >>]>>],
   [dirs |-> <<[path |-> <<>>, providers |-> <<"aws">>],
               [path |-> P_a, providers |-> ProvidersFor(P_a)]>>,
    modules |-> <<[source |-> P_m, usedIn |-> << <<>>, P_a >>]>>]}

NoResult == [state |-> "none"]

\* an option that was not given
NotGiven == [given |-> FALSE]

\* --deps-file names this file, --output names this path
Given(file) == [given |-> TRUE, file |-> file]

\* a path other than the workspace snapshot's
OutputPath == <<"o","u","t",".","j","s","o","n">>

(***************************************************************************)
(* Specification of the resolver: a diff is read, then resolved            *)
(***************************************************************************)
InitResolver ==
  /\ pc = "input"
  /\ depsFile \in {Snapshot(g) : g \in Graphs \cup EmptyPathGraphs}
  /\ changedFiles = <<>>
  /\ rsResult = NoResult
  /\ commentBody = <<>> /\ calls = <<>> /\ opResult = NoResult
  /\ targetsInput = <<>> /\ stResult = NoResult
  /\ roots = <<>> /\ tasks = <<>> /\ exitCode = -1 /\ writes = 0
  /\ callArgs = NoResult /\ callResult = NoResult

\* git diff --name-only lists one more file
AddChangedFile(f) ==
  /\ pc = "input"
  /\ Len(changedFiles) < MaxFiles
  /\ f \notin Range(changedFiles)
  /\ changedFiles' = Append(changedFiles, f)
  /\ UNCHANGED <<pc, depsFile, rsResult, commandVars, selectVars,
                 buildVars, callVars>>

Calculate ==
  /\ pc = "input"
  /\ rsResult' = Ok(calculateExecutionPaths(changedFiles, depsFile.data))
  /\ pc' = "done"
  /\ UNCHANGED <<depsFile, changedFiles, commandVars, selectVars,
                 buildVars, callVars>>

NextResolver ==
  \/ \E f \in FilePaths : AddChangedFile(f)
  \/ Calculate

SpecResolver == InitResolver /\ [][NextResolver]_vars

(***************************************************************************)
(* Specification of select-targets: the argument is typed, then validated  *)
(***************************************************************************)
TargetAlphabet == {"a", "b", "c", "/", " "}

SelectGraphs ==
  {[dirs |-> <<[path |-> P_a, providers |-> ProvidersFor(P_a)]>>,
    modules |-> <<>>],
   [dirs |-> <<[path |-> P_a, providers |-> ProvidersFor(P_a)],
               [path |-> P_ab, providers |-> ProvidersFor(P_ab)],
               [path |-> P_c, providers |-> ProvidersFor(P_c)]>>,
    modules |-> <<>>]}

InitSelect ==
  /\ pc = "input"
  /\ depsFile \in {Absent, Malformed, Unreadable}
                  \cup {Snapshot(g) : g \in SelectGraphs}
  /\ targetsInput = <<>>
  /\ stResult = NoResult
  /\ commentBody = <<>> /\ calls = <<>> /\ opResult = NoResult
  /\ changedFiles = <<>> /\ rsResult = NoResult
  /\ roots = <<>> /\ tasks = <<>> /\ exitCode = -1 /\ writes = 0
  /\ callArgs = NoResult /\ callResult = NoResult

TypeTargetChar(c) ==
  /\ pc = "input"
  /\ Len(targetsInput) < MaxInput
  /\ targetsInput' = Append(targetsInput, c)
  /\ UNCHANGED <<pc, depsFile, changedFiles, rsResult, stResult,
                 commandVars, buildVars, callVars>>

SelectTargetsRun ==
  /\ pc = "input"
  /\ stResult' = selectTargets(targetsInput, depsFile)
  /\ pc' = "done"
  /\ UNCHANGED <<depsFile, changedFiles, rsResult, targetsInput,
                 commandVars, buildVars, callVars>>

NextSelect ==
  \/ \E c \in TargetAlphabet : TypeTargetChar(c)
  \/ SelectTargetsRun

SpecSelect == InitSelect /\ [][NextSelect]_vars

(***************************************************************************)
(* Specification of snapshot loading: either entry point reads the file    *)
(***************************************************************************)
LoadInputs == {P_a, P_a \o <<" ">> \o P_c, <<"b">>}

InitLoad ==
  /\ pc = "input"
  /\ depsFile \in {Absent, Malformed, Unreadable}
                  \cup {Snapshot(g) : g \in SelectGraphs}
  /\ targetsInput \in LoadInputs
  /\ stResult = NoResult
  /\ changedFiles = <<>> /\ rsResult = NoResult
  /\ commentBody = <<>> /\ calls = <<>> /\ opResult = NoResult
  /\ roots = <<>> /\ tasks = <<>> /\ exitCode = -1 /\ writes = 0
  /\ callArgs = NoResult /\ callResult = NoResult

\* detectChanges(base, head) with both identifiers present
DetectChangesRun ==
  /\ pc = "input"
  /\ rsResult' = detectChanges(changedFiles, depsFile)
  /\ pc' = "done"
  /\ UNCHANGED <<depsFile, changedFiles, commandVars, selectVars,
                 buildVars, callVars>>

NextLoad ==
  \/ \E f \in FilePaths : AddChangedFile(f)
  \/ DetectChangesRun
  \/ SelectTargetsRun

SpecLoad == InitLoad /\ [][NextLoad]_vars

(***************************************************************************)
(* Specification of the detect-changes command                             *)
(* (cli/commands/detect-changes.mjs)                                       *)
(***************************************************************************)
\* run(args): the named file is loaded, a failure to load it is only warned
\* about, and detectChanges is called with a third argument it does not
\* take; with --output its result is saved as {include: result}
detectChangesRun(args, files, workspaceFile) ==
  LET dependencyGraph ==
        IF args.depsFile.given
        THEN LET loaded == loadJson(args.depsFile.file, <<"d">>)
             IN  IF loaded.ok THEN loaded.value ELSE Null
        ELSE Null
      result == detectChanges(files, workspaceFile)
  IN  [returned |-> result,
       saved |-> IF result.ok /\ args.output.given
                 THEN [state |-> "saved", path |-> args.output.file,
                       data |-> [include |-> result.value]]
                 ELSE NoResult]

InitDetect ==
  /\ pc = "input"
  /\ depsFile \in {Absent, Unreadable}
                  \cup {Snapshot(g) : g \in SelectGraphs}
  /\ callArgs \in [depsFile : {NotGiven, Given(Absent), Given(Malformed),
                               Given(Unreadable)}
                                \cup {Given(Snapshot(g)) : g \in SelectGraphs},
                   output : {NotGiven, Given(OutputPath),
                             Given(DepsFilePath)}]
  /\ callResult = NoResult
  /\ changedFiles = <<>> /\ rsResult = NoResult
  /\ commentBody = <<>> /\ calls = <<>> /\ opResult = NoResult
  /\ targetsInput = <<>> /\ stResult = NoResult
  /\ roots = <<>> /\ tasks = <<>> /\ exitCode = -1 /\ writes = 0

\* the command runs; what it saves is kept in callResult, and a save to the
\* snapshot's own path replaces the snapshot
DetectChangesCommand ==
  /\ pc = "input"
  /\ LET r == detectChangesRun(callArgs, changedFiles, depsFile)
     IN  /\ rsResult' = r.returned
         /\ callResult' = r.saved
         /\ depsFile' = IF r.saved # NoResult /\ r.saved.path = DepsFilePath
                        THEN Snapshot(r.saved.data)
                        ELSE depsFile
  /\ pc' = "done"
  /\ UNCHANGED <<changedFiles, callArgs, commandVars, selectVars, buildVars>>

NextDetect ==
  \/ \E f \in FilePaths : AddChangedFile(f)
  \/ DetectChangesCommand

SpecDetect == InitDetect /\ [][NextDetect]_vars

(***************************************************************************)
(* Specification of operate-command: a comment is typed, then run          *)
(***************************************************************************)
Space == <<" ">>

CommandPrefixes ==
  {<<>>, TRIGGER \o Space, TRIGGER \o Space \o APPLY \o Space,
   TRIGGER \o Space \o PLAN \o Space, TRIGGER \o Space \o HELP}

CommentAlphabet == {"a", "/", " ", ";", "\"", "'", "\n"}

\* characters typed behind the longest command prefix of the body
TailLen(body) ==
  LET lens == {Len(p) : p \in {q \in CommandPrefixes : StartsWith(body, q)}}
  IN  Len(body) - CHOOSE n \in lens : \A k \in lens : k <= n

G0 == [dirs |-> <<[path |-> P_a, providers |-> ProvidersFor(P_a)]>>,
       modules |-> <<>>]

CommandEnvs ==
  {[file |-> Absent, files |-> <<>>],
   [file |-> Unreadable, files |-> <<>>],
   [file |-> Snapshot(G0), files |-> <<>>],
   [file |-> Snapshot(G0), files |-> << <<"a","/","x">> >>]}

InitCommand ==
  /\ pc = "input"
  /\ commentBody \in CommandPrefixes
  /\ \E env \in CommandEnvs :
       depsFile = env.file /\ changedFiles = env.files
  /\ calls = <<>> /\ opResult = NoResult
  /\ rsResult = NoResult
  /\ targetsInput = <<>> /\ stResult = NoResult
  /\ roots = <<>> /\ tasks = <<>> /\ exitCode = -1 /\ writes = 0
  /\ callArgs = NoResult /\ callResult = NoResult

TypeCommentChar(c) ==
  /\ pc = "input"
  /\ TailLen(commentBody) < MaxTail
  /\ commentBody' = Append(commentBody, c)
  /\ UNCHANGED <<pc, calls, opResult, depsFile, changedFiles, rsResult,
                 selectVars, buildVars, callVars>>

OperateCommandRun ==
  /\ pc = "input"
  /\ LET r == run(commentBody, changedFiles, depsFile)
     IN  /\ opResult' = r.result
         /\ calls' = r.calls
         /\ pc' = IF "ok" \in DOMAIN r.result THEN "thrown" ELSE "done"
  /\ UNCHANGED <<commentBody, depsFile, changedFiles, rsResult,
                 selectVars, buildVars, callVars>>

NextCommand ==
  \/ \E c \in CommentAlphabet : TypeCommentChar(c)
  \/ OperateCommandRun

SpecCommand == InitCommand /\ [][NextCommand]_vars

(***************************************************************************)
(* Graph Builder: analyzeRoot (lib/ops/deps-generator.mjs) and             *)
(* generate-deps (cli/commands/generate-deps.mjs)                          *)
(***************************************************************************)
\* the result object analyzeRoot starts from, with the task's position
NewTask(root) ==
  [root |-> root, phase |-> "init", status |-> "success", logs |-> <<>>,
   modules |-> <<>>, providers |-> <<>>,
   modulesDone |-> FALSE, providersDone |-> FALSE]

\* outcomes of the external tool
ToolFailed == [kind |-> "fail"]
ToolMalformed == [kind |-> "malformed"]
ToolOutput(list) == [kind |-> "ok", list |-> list]

\* local module paths a root can resolve, as extractModules returns them
ModuleOutputs == {<<>>, <<P_m>>, <<P_am, P_m>>}
ProviderOutputs == {<<>>, <<"aws">>}

InitOutcomes == {"initialized", "init-ok", "init-failed"}

\* the .terraform check and terraform init
AnalyzeInit(task, outcome) ==
  IF outcome = "init-failed"
  THEN [task EXCEPT !.logs = Append(@, "Initialization failed"),
                    !.status = "error",
                    !.phase = "done"]
  ELSE [task EXCEPT !.phase = "extract"]

\* extractModules: every failure is logged and yields []
extractModules(task, out) ==
  IF out.kind = "fail"
    THEN [task EXCEPT !.logs = Append(@, "'terraform modules' failed"),
                      !.modules = <<>>, !.modulesDone = TRUE]
  ELSE IF out.kind = "malformed"
    THEN [task EXCEPT !.logs = Append(@, "JSON decode error (modules)"),
                      !.modules = <<>>, !.modulesDone = TRUE]
  ELSE [task EXCEPT !.modules = out.list, !.modulesDone = TRUE]

\* extractProviders: every failure is logged and yields []
extractProviders(task, out) ==
  IF out.kind \in {"fail", "malformed"}
    THEN [task EXCEPT !.logs = Append(@, "Failed to get providers schema"),
                      !.providers = <<>>, !.providersDone = TRUE]
  ELSE [task EXCEPT !.providers = out.list, !.providersDone = TRUE]

\* insert the string x into the ascending list sorted
RECURSIVE InsertSorted(_, _)
InsertSorted(sorted, x) ==
  IF sorted = <<>> THEN <<x>>
  ELSE IF StrLess(x, sorted[1]) THEN <<x>> \o sorted
  ELSE <<sorted[1]>> \o InsertSorted(Tail(sorted), x)

\* Array.prototype.sort on strings
RECURSIVE SortStrings(_)
SortStrings(list) ==
  IF list = <<>> THEN <<>>
  ELSE InsertSorted(SortStrings(SubSeq(list, 1, Len(list) - 1)),
                    list[Len(list)])

\* insert the result r by its root
RECURSIVE InsertResult(_, _)
InsertResult(sorted, r) ==
  IF sorted = <<>> THEN <<r>>
  ELSE IF StrLess(r.root, sorted[1].root) THEN <<r>> \o sorted
  ELSE <<sorted[1]>> \o InsertResult(Tail(sorted), r)

\* the results list left in the order it was handed over
M_SortResults(results) == results

\* results.sort((a, b) => a.root.localeCompare(b.root))
RECURSIVE SortResults(_)
SortResults(results) ==
  IF results = <<>> THEN <<>>
  ELSE InsertResult(SortResults(SubSeq(results, 1, Len(results) - 1)),
                    results[Len(results)])

IsSuccess(res) == res.status = "success"
IsFailure(res) == res.status # "success"

\* failedRoots after the loop over results
FailedRoots(results) ==
  LET failed == SelectSeq(results, IsFailure)
  IN  [i \in 1..Len(failed) |-> failed[i].root]

\* roots without providers left out of rootObjects
M_RootObjects(results) ==
  LET good == SelectSeq(results,
                        LAMBDA r : IsSuccess(r) /\ r.providers # <<>>)
  IN  [i \in 1..Len(good) |->
         [path |-> good[i].root, providers |-> good[i].providers]]

\* rootObjects after the loop over results
RootObjects(results) ==
  LET good == SelectSeq(results, IsSuccess)
  IN  [i \in 1..Len(good) |->
         [path |-> good[i].root, providers |-> good[i].providers]]

\* if (!moduleUsage[mod]) moduleUsage[mod] = [], for every mod of one root
RECURSIVE AddKeys(_, _)
AddKeys(keys, mods) ==
  IF mods = <<>> THEN keys
  ELSE AddKeys(SetAdd(keys, mods[1]), Tail(mods))

\* keys of moduleUsage in insertion order
RECURSIVE UsageKeys(_)
UsageKeys(good) ==
  IF good = <<>> THEN <<>>
  ELSE AddKeys(UsageKeys(SubSeq(good, 1, Len(good) - 1)),
               good[Len(good)].modules)

\* moduleUsage[mod]: one push per occurrence of mod in a root's modules
RECURSIVE UsageOf(_, _)
UsageOf(good, mod) ==
  IF good = <<>> THEN <<>>
  ELSE UsageOf(SubSeq(good, 1, Len(good) - 1), mod)
       \o [i \in 1..Cardinality({k \in 1..Len(good[Len(good)].modules) :
                                   good[Len(good)].modules[k] = mod})
             |-> good[Len(good)].root]

\* the object serialized into the snapshot
OutputObject(results) ==
  LET good == SelectSeq(results, IsSuccess)
      keys == SortStrings(UsageKeys(good))
  IN  [dirs |-> RootObjects(results),
       modules |-> [i \in 1..Len(keys) |->
                      [source |-> keys[i],
                       usedIn |-> SortStrings(UsageOf(good, keys[i]))]]]

\* failedRoots.length > 0
M_BuildFailed(failedRoots) == Len(failedRoots) > 1

BuildFailed(failedRoots) == Len(failedRoots) > 0

\* roots as findTerraformRoots returns them: distinct and sorted
RootLists ==
  {rs \in SeqsOf(RootPaths, 0, MaxRoots) :
     \A i, j \in 1..Len(rs) : i < j => StrLess(rs[i], rs[j])}

\* the options of generate-deps: --root and --output, each given or not
GenerateOptions ==
  {[root |-> NotGiven, output |-> NotGiven],
   [root |-> NotGiven, output |-> Given(OutputPath)],
   [root |-> Given(P_a), output |-> NotGiven]}

\* output || join(root, '.tfdeps.json'), relative to the workspace
OutputPathOf(options) ==
  IF options.output.given THEN options.output.file
  ELSE IF options.root.given THEN options.root.file \o Slash \o DepsFilePath
  ELSE DepsFilePath

InitBuild ==
  /\ pc = "start"
  /\ depsFile \in {Absent, Snapshot(G0)}
  /\ roots \in RootLists
  /\ tasks = <<>>
  /\ exitCode = -1 /\ writes = 0
  /\ commentBody = <<>> /\ calls = <<>> /\ opResult = NoResult
  /\ changedFiles = <<>> /\ rsResult = NoResult
  /\ targetsInput = <<>> /\ stResult = NoResult
  /\ callArgs \in GenerateOptions /\ callResult = NoResult

\* terraform -version cannot be run
TerraformMissing ==
  /\ pc = "start"
  /\ pc' = "exited"
  /\ exitCode' = 1
  /\ UNCHANGED <<depsFile, changedFiles, rsResult, roots, tasks, writes,
                 commandVars, selectVars, callVars>>

\* generateDependencyGraph starts one analyzeRoot per root
StartAnalysis ==
  /\ pc = "start"
  /\ tasks' = [i \in 1..Len(roots) |-> NewTask(roots[i])]
  /\ pc' = "analysis"
  /\ UNCHANGED <<depsFile, changedFiles, rsResult, roots, exitCode, writes,
                 commandVars, selectVars, callVars>>

InitializeRoot(i, outcome) ==
  /\ pc = "analysis"
  /\ tasks[i].phase = "init"
  /\ tasks' = [tasks EXCEPT ![i] = AnalyzeInit(@, outcome)]
  /\ UNCHANGED <<pc, depsFile, changedFiles, rsResult, roots, exitCode,
                 writes, commandVars, selectVars, callVars>>

ModulesReturn(i, out) ==
  /\ pc = "analysis"
  /\ tasks[i].phase = "extract" /\ ~tasks[i].modulesDone
  /\ tasks' = [tasks EXCEPT ![i] = extractModules(@, out)]
  /\ UNCHANGED <<pc, depsFile, changedFiles, rsResult, roots, exitCode,
                 writes, commandVars, selectVars, callVars>>

ProvidersReturn(i, out) ==
  /\ pc = "analysis"
  /\ tasks[i].phase = "extract" /\ ~tasks[i].providersDone
  /\ tasks' = [tasks EXCEPT ![i] = extractProviders(@, out)]
  /\ UNCHANGED <<pc, depsFile, changedFiles, rsResult, roots, exitCode,
                 writes, commandVars, selectVars, callVars>>

\* the inner Promise.all of analyzeRoot resolves and the result is returned
FinishRoot(i) ==
  /\ pc = "analysis"
  /\ tasks[i].phase = "extract"
  /\ tasks[i].modulesDone /\ tasks[i].providersDone
  /\ tasks' = [tasks EXCEPT ![i].phase = "done"]
  /\ UNCHANGED <<pc, depsFile, changedFiles, rsResult, roots, exitCode,
                 writes, commandVars, selectVars, callVars>>

\* the task records as the result objects of analyzeRoot
Results ==
  [i \in 1..Len(tasks) |->
     [root |-> tasks[i].root, status |-> tasks[i].status,
      logs |-> tasks[i].logs, modules |-> tasks[i].modules,
      providers |-> tasks[i].providers]]

\* the orders in which a results list of n entries can be handed over
ResultOrders(n) ==
  {f \in [1..n -> 1..n] : \A i, j \in 1..n : f[i] = f[j] => i = j}

\* aggregation as soon as one task has failed, without waiting for the rest
M_Aggregate ==
  /\ pc = "analysis"
  /\ \/ \A i \in 1..Len(tasks) : tasks[i].phase = "done"
     \/ \E i \in 1..Len(tasks) : tasks[i].status = "error"
  /\ \E order \in ResultOrders(Len(tasks)) :
       LET results == SortResults([i \in 1..Len(tasks) |-> Results[order[i]]])
       IN  IF BuildFailed(FailedRoots(results))
           THEN /\ exitCode' = 1
                /\ UNCHANGED <<depsFile, writes, callResult>>
           ELSE LET outputPath == OutputPathOf(callArgs)
                    outputObject == OutputObject(results)
                IN  /\ callResult' = [state |-> "saved",
                                      path |-> outputPath,
                                      data |-> outputObject]
                    /\ depsFile' = IF outputPath = DepsFilePath
                                   THEN Snapshot(outputObject)
                                   ELSE depsFile
                    /\ writes' = writes + 1
                    /\ exitCode' = 0
  /\ pc' = "exited"
  /\ UNCHANGED <<changedFiles, rsResult, roots, tasks, commandVars,
                 selectVars, callArgs>>

\* generate-deps after the outer Promise.all: exit 1 or write the snapshot
Aggregate ==
  /\ pc = "analysis"
  /\ \A i \in 1..Len(tasks) : tasks[i].phase = "done"
  /\ \E order \in ResultOrders(Len(tasks)) :
       LET results == SortResults([i \in 1..Len(tasks) |-> Results[order[i]]])
       IN  IF BuildFailed(FailedRoots(results))
           THEN /\ exitCode' = 1
                /\ UNCHANGED <<depsFile, writes, callResult>>
           ELSE LET outputPath == OutputPathOf(callArgs)
                    outputObject == OutputObject(results)
                IN  /\ callResult' = [state |-> "saved",
                                      path |-> outputPath,
                                      data |-> outputObject]
                    /\ depsFile' = IF outputPath = DepsFilePath
                                   THEN Snapshot(outputObject)
                                   ELSE depsFile
                    /\ writes' = writes + 1
                    /\ exitCode' = 0
  /\ pc' = "exited"
  /\ UNCHANGED <<changedFiles, rsResult, roots, tasks, commandVars,
                 selectVars, callArgs>>

NextBuild ==
  \/ TerraformMissing
  \/ StartAnalysis
  \/ \E i \in 1..Len(tasks), o \in InitOutcomes : InitializeRoot(i, o)
  \/ \E i \in 1..Len(tasks),
        out \in {ToolFailed, ToolMalformed}
                  \cup {ToolOutput(l) : l \in ModuleOutputs} :
          ModulesReturn(i, out)
  \/ \E i \in 1..Len(tasks),
        out \in {ToolFailed, ToolMalformed}
                  \cup {ToolOutput(l) : l \in ProviderOutputs} :
          ProvidersReturn(i, out)
  \/ \E i \in 1..Len(tasks) : FinishRoot(i)
  \/ Aggregate

SpecBuild == InitBuild /\ [][NextBuild]_vars


(***************************************************************************)
(* Local module resolution (lib/ops/deps-generator.mjs)                    *)
(*                                                                         *)
(* Absolute paths are sequences of segments; the strings handed to and     *)
(* returned by the path functions stay sequences of characters.            *)
(***************************************************************************)
\* String.prototype.includes
Includes(s, sub) ==
  \E k \in 0..Len(s) - Len(sub) : SubSeq(s, k + 1, k + Len(sub)) = sub

\* index of the first occurrence of sub in s at or after from, 0 if none
FirstIndexOf(s, sub, from) ==
  LET hits == {k \in from..Len(s) - Len(sub) + 1 :
                 SubSeq(s, k, k + Len(sub) - 1) = sub}
  IN  IF hits = {} THEN 0 ELSE CHOOSE k \in hits : \A j \in hits : k <= j

\* String.prototype.split with a non-empty separator
RECURSIVE Split(_, _)
Split(s, sep) ==
  LET k == FirstIndexOf(s, sep, 1)
  IN  IF k = 0 THEN <<s>>
      ELSE <<SubSeq(s, 1, k - 1)>>
           \o Split(SubSeq(s, k + Len(sep), Len(s)), sep)

\* the segments of a path string
PathSegments(p) == SelectSeq(Split(p, Slash), LAMBDA seg : seg # <<>>)

Dot == <<".">>
DotDot == <<".", ".">>

\* '.' is dropped and '..' removes the segment before it, if there is one
RECURSIVE NormalizeSegments(_, _)
NormalizeSegments(acc, segs) ==
  IF segs = <<>> THEN acc
  ELSE IF segs[1] = Dot THEN NormalizeSegments(acc, Tail(segs))
  ELSE IF segs[1] = DotDot
    THEN NormalizeSegments(IF acc = <<>> THEN acc
                           ELSE SubSeq(acc, 1, Len(acc) - 1), Tail(segs))
  ELSE NormalizeSegments(Append(acc, segs[1]), Tail(segs))

\* path.resolve(from, to) for an absolute from
resolve(from, to) ==
  IF to # <<>> /\ to[1] = "/"
  THEN NormalizeSegments(<<>>, PathSegments(to))
  ELSE NormalizeSegments(from, PathSegments(to))

\* path.relative(from, to) for two absolute paths
relative(from, to) ==
  LET same == {k \in 0..Len(from) :
                 k <= Len(to) /\ SubSeq(from, 1, k) = SubSeq(to, 1, k)}
      k == CHOOSE n \in same : \A j \in same : j <= n
  IN  Join([i \in 1..Len(from) - k |-> DotDot] \o SubSeq(to, k + 1, Len(to)),
           Slash)

GitPrefix == <<"g", "i", "t", ":", ":">>

\* the candidate path of resolveLocalModule, Null when there is none
CandidatePath(rootAbs, source, dirPath, workspaceRoot, repoName) ==
  IF /\ StartsWith(source, GitPrefix)
     /\ Includes(source, Slash \o Slash)
     /\ repoName # <<>>
     /\ Includes(source, repoName)
  THEN LET parts == Split(source, Slash \o Slash)
           pathPart == Split(parts[Len(parts)], <<"?">>)[1]
       IN  [abs |-> resolve(workspaceRoot, pathPart)]
  ELSE IF dirPath # <<>> THEN [abs |-> resolve(rootAbs, dirPath)]
  ELSE IF StartsWith(source, Dot) THEN [abs |-> resolve(rootAbs, source)]
  ELSE Null

\* the check on the relative path left out
M_resolveLocalModule(rootAbs, source, dirPath, workspaceRoot, repoName, disk) ==
  LET candidate == CandidatePath(rootAbs, source, dirPath, workspaceRoot,
                                 repoName)
  IN  IF candidate # Null /\ candidate.abs \in disk
      THEN [path |-> relative(workspaceRoot, candidate.abs)]
      ELSE Null

\* disk is the set of absolute paths that exist
resolveLocalModule(rootAbs, source, dirPath, workspaceRoot, repoName, disk) ==
  LET candidate == CandidatePath(rootAbs, source, dirPath, workspaceRoot,
                                 repoName)
  IN  IF candidate # Null /\ candidate.abs \in disk
      THEN LET rel == relative(workspaceRoot, candidate.abs)
           IN  IF rel # <<>> /\ ~StartsWith(rel, DotDot)
               THEN [path |-> rel]
               ELSE Null
      ELSE Null

\* the loop of extractModules over modulesRaw, then Array.from(set).sort()
RECURSIVE ModulesSet(_, _, _, _, _)
ModulesSet(entries, rootAbs, workspaceRoot, repoName, disk) ==
  IF entries = <<>> THEN <<>>
  ELSE
    LET before == ModulesSet(SubSeq(entries, 1, Len(entries) - 1), rootAbs,
                             workspaceRoot, repoName, disk)
        m == entries[Len(entries)]
        modPath == IF m.source = <<>> THEN Null
                   ELSE resolveLocalModule(rootAbs, m.source, m.dir,
                                           workspaceRoot, repoName, disk)
    IN  IF modPath # Null THEN SetAdd(before, modPath.path) ELSE before

LocalModules(entries, rootAbs, workspaceRoot, repoName, disk) ==
  SortStrings(ModulesSet(entries, rootAbs, workspaceRoot, repoName, disk))

(***************************************************************************)
(* Specification of module extraction: the tool's entries are read, then   *)
(* resolved against the disk                                               *)
(***************************************************************************)
WorkspaceRoot == << <<"w">> >>

RepoName == <<"r">>

ModuleEntry(source, dir) == [source |-> source, dir |-> dir]

\* entries of `terraform modules -json`: Source and Dir
ModuleEntries ==
  {ModuleEntry(<<".", "/", "m">>, <<>>),
   ModuleEntry(<<".", ".", "/", "m">>, <<>>),
   ModuleEntry(<<".", ".", "/", ".", ".", "/", "c">>, <<>>),
   ModuleEntry(<<".", ".", "/", ".", ".", "/", "w", "/", "m">>, <<>>),
   ModuleEntry(<<".", ".">>, <<>>),
   ModuleEntry(<<".", ".", "/", "m">>, <<".", ".", "/", "m">>),
   ModuleEntry(<<"m">>, <<>>),
   ModuleEntry(<<"m">>, <<"/", "c">>),
   ModuleEntry(GitPrefix \o <<"r", "/", "/", "m", "?", "v">>, <<>>),
   ModuleEntry(GitPrefix \o <<"r", "/", "/", ".", ".", "/", "c">>, <<>>),
   ModuleEntry(GitPrefix \o <<"o", "/", "/", "m">>,
               <<".", ".", "/", ".", ".", "/", "c">>),
   ModuleEntry(GitPrefix \o <<"o", "/", "/", "m">>, <<>>)}

\* directories that may or may not exist
OptionalDirs ==
  {<< <<"w">>, <<"m">> >>, << <<"w">>, <<"a">>, <<"m">> >>,
   << <<"c">> >>, << <<"w">>, <<"c">> >>}

\* the workspace and its roots always exist
ModuleDisks ==
  {{<< <<"w">> >>, << <<"w">>, <<"a">> >>, << <<"w">>, <<"a">>, <<"b">> >>}
     \cup extra : extra \in SUBSET OptionalDirs}

InitModule ==
  /\ pc = "input"
  /\ callArgs \in [root : {P_a, P_ab}, repoName : {RepoName, <<>>},
                   disk : ModuleDisks, entries : {<<>>}]
  /\ callResult = NoResult
  /\ depsFile = Absent
  /\ commentBody = <<>> /\ calls = <<>> /\ opResult = NoResult
  /\ changedFiles = <<>> /\ rsResult = NoResult
  /\ targetsInput = <<>> /\ stResult = NoResult
  /\ roots = <<>> /\ tasks = <<>> /\ exitCode = -1 /\ writes = 0

\* one more entry of data.Modules
ReadModuleEntry(e) ==
  /\ pc = "input"
  /\ Len(callArgs.entries) < MaxEntries
  /\ callArgs' = [callArgs EXCEPT !.entries = Append(@, e)]
  /\ UNCHANGED <<pc, callResult, depsFile, changedFiles, rsResult,
                 commandVars, selectVars, buildVars>>

\* the absolute path of the root under analysis
RootAbs == resolve(WorkspaceRoot, callArgs.root)

ExtractModulesRun ==
  /\ pc = "input"
  /\ callResult' = LocalModules(callArgs.entries, RootAbs, WorkspaceRoot,
                                callArgs.repoName, callArgs.disk)
  /\ pc' = "done"
  /\ UNCHANGED <<callArgs, depsFile, changedFiles, rsResult, commandVars,
                 selectVars, buildVars>>

NextModule ==
  \/ \E e \in ModuleEntries : ReadModuleEntry(e)
  \/ ExtractModulesRun

SpecModule == InitModule /\ [][NextModule]_vars

(***************************************************************************)
(* Ignore file (lib/ops/deps-generator.mjs, loadIgnorePatterns)            *)
(***************************************************************************)
\* lines.map(l => l.trim()).filter(l => l && !l.startsWith('#')), as a Set
RECURSIVE IgnoreLines(_)
IgnoreLines(lines) ==
  IF lines = <<>> THEN <<>>
  ELSE LET before == IgnoreLines(SubSeq(lines, 1, Len(lines) - 1))
           l == Trim(lines[Len(lines)])
       IN  IF l # <<>> /\ ~StartsWith(l, <<"#">>)
           THEN SetAdd(before, l) ELSE before

\* a missing ignore file gives the empty set
loadIgnorePatterns(file) ==
  IF ~file.exists THEN <<>>
  ELSE IgnoreLines(Split(file.content, <<"\n">>))

IgnoreAlphabet == {"a", "b", " ", "#", "\n"}

InitIgnore ==
  /\ pc = "input"
  /\ callArgs \in [exists : BOOLEAN, content : {<<>>}]
  /\ callResult = NoResult
  /\ depsFile = Absent
  /\ commentBody = <<>> /\ calls = <<>> /\ opResult = NoResult
  /\ changedFiles = <<>> /\ rsResult = NoResult
  /\ targetsInput = <<>> /\ stResult = NoResult
  /\ roots = <<>> /\ tasks = <<>> /\ exitCode = -1 /\ writes = 0

\* one more character of the ignore file
WriteIgnoreChar(c) ==
  /\ pc = "input"
  /\ callArgs.exists
  /\ Len(callArgs.content) < MaxIgnore
  /\ callArgs' = [callArgs EXCEPT !.content = Append(@, c)]
  /\ UNCHANGED <<pc, callResult, depsFile, changedFiles, rsResult,
                 commandVars, selectVars, buildVars>>

LoadIgnorePatternsRun ==
  /\ pc = "input"
  /\ callResult' = loadIgnorePatterns(callArgs)
  /\ pc' = "done"
  /\ UNCHANGED <<callArgs, depsFile, changedFiles, rsResult, commandVars,
                 selectVars, buildVars>>

NextIgnore ==
  \/ \E c \in IgnoreAlphabet : WriteIgnoreChar(c)
  \/ LoadIgnorePatternsRun

SpecIgnore == InitIgnore /\ [][NextIgnore]_vars

(***************************************************************************)
(* Authorizer (lib/ops/authorizer.mjs, resolveRoles)                       *)
(*                                                                         *)
(* The permission file's object is the sequence of its [role, users]       *)
(* entries; a users value is a list or some other JSON value.              *)
(***************************************************************************)
UserList(items) == [isArray |-> TRUE, items |-> items]

\* a string value: includes() would answer, Array.isArray does not
UserString(text) == [isArray |-> FALSE, items |-> <<text>>]

\* Object.entries(data).filter(...).map(([role]) => role)
RECURSIVE RolesOf(_, _)
RolesOf(entries, actor) ==
  IF entries = <<>> THEN <<>>
  ELSE LET e == entries[1]
       IN  IF e.users.isArray /\ actor \in Range(e.users.items)
           THEN <<e.role>> \o RolesOf(Tail(entries), actor)
           ELSE RolesOf(Tail(entries), actor)

\* the default role left out
M_resolveRoles(actor, file) ==
  IF file.state = "absent" THEN Ok(<<"planner">>)
  ELSE IF file.state = "malformed"
    THEN Err(Msg("${error.message}", <<>>))
  ELSE IF file.state = "unreadable"
    THEN Err(Msg("EISDIR: illegal operation on a directory, read", <<>>))
  ELSE Ok(RolesOf(file.data, actor))

resolveRoles(actor, file) ==
  IF file.state = "absent" THEN Ok(<<"planner">>)
  ELSE IF file.state = "malformed"
    THEN Err(Msg("${error.message}", <<>>))
  ELSE IF file.state = "unreadable"
    THEN Err(Msg("EISDIR: illegal operation on a directory, read", <<>>))
  ELSE LET roles == RolesOf(file.data, actor)
       IN  Ok(IF Len(roles) > 0 THEN roles ELSE <<"planner">>)

RoleNames == {"applier", "admin", "planner"}
Actors == {"alice", "bob"}

UsersValues ==
  {UserList(<<>>), UserList(<<"alice">>), UserList(<<"bob">>),
   UserList(<<"alice", "bob">>), UserString("alice")}

InitRoles ==
  /\ pc = "input"
  /\ callArgs \in [actor : Actors,
                   file : {Absent, Malformed, Unreadable, Snapshot(<<>>)}]
  /\ callResult = NoResult
  /\ depsFile = Absent
  /\ commentBody = <<>> /\ calls = <<>> /\ opResult = NoResult
  /\ changedFiles = <<>> /\ rsResult = NoResult
  /\ targetsInput = <<>> /\ stResult = NoResult
  /\ roots = <<>> /\ tasks = <<>> /\ exitCode = -1 /\ writes = 0

\* one more key of the permission file
AddRoleEntry(role, users) ==
  /\ pc = "input"
  /\ callArgs.file.state = "ok"
  /\ Len(callArgs.file.data) < MaxRoles
  /\ \A i \in 1..Len(callArgs.file.data) : callArgs.file.data[i].role # role
  /\ callArgs' = [callArgs EXCEPT
                    !.file.data = Append(@, [role |-> role, users |-> users])]
  /\ UNCHANGED <<pc, callResult, depsFile, changedFiles, rsResult,
                 commandVars, selectVars, buildVars>>

ResolveRolesRun ==
  /\ pc = "input"
  /\ callResult' = resolveRoles(callArgs.actor, callArgs.file)
  /\ pc' = "done"
  /\ UNCHANGED <<callArgs, depsFile, changedFiles, rsResult, commandVars,
                 selectVars, buildVars>>

NextRoles ==
  \/ \E role \in RoleNames, users \in UsersValues : AddRoleEntry(role, users)
  \/ ResolveRolesRun

SpecRoles == InitRoles /\ [][NextRoles]_vars

(***************************************************************************)
(* Root discovery (lib/ops/deps-generator.mjs, findTerraformRoots)         *)
(*                                                                         *)
(* A directory is the sequence of its segments below the scanned root; the *)
(* scanned root is the empty sequence.                                     *)
(***************************************************************************)
\* relative(root, dir)
RelPath(dir) == Join(dir, Slash)

\* the bare directory name left out of the comparison
M_IsIgnored(relEntry, name, patterns) ==
  \E i \in 1..Len(patterns) :
    \/ relEntry = patterns[i]
    \/ StartsWith(relEntry, patterns[i] \o Slash)

\* the loop over ignorePatterns for one directory entry
IsIgnored(relEntry, name, patterns) ==
  \E i \in 1..Len(patterns) :
    \/ relEntry = patterns[i]
    \/ StartsWith(relEntry, patterns[i] \o Slash)
    \/ name = patterns[i]

\* the sub-directories of dir
Children(dir, dirs) ==
  {d \in dirs : Len(d) = Len(dir) + 1 /\ SubSeq(d, 1, Len(dir)) = dir}

\* the name of the marker file
MarkerName ==
  <<".","t","e","r","r","a","f","o","r","m","-","v","e","r","s","i","o","n">>

\* the Dirent objects of dir: its sub-directories and, if present, the
\* marker file
Entries(dir, dirs, markers) ==
  {[name |-> d[Len(d)], isDirectory |-> TRUE, path |-> d] :
     d \in Children(dir, dirs)}
  \cup (IF dir \in markers
        THEN {[name |-> MarkerName, isDirectory |-> FALSE,
               path |-> Append(dir, MarkerName)]}
        ELSE {})

\* the entries in the order readdir lists them: ascending by name
RECURSIVE ListingOf(_)
ListingOf(S) ==
  IF S = {} THEN <<>>
  ELSE LET e == CHOOSE x \in S :
                  \A y \in S \ {x} : StrLess(x.name, y.name)
       IN  <<e>> \o ListingOf(S \ {e})

\* walk(dir): the relative paths pushed, in the order they are pushed
RECURSIVE Walk(_, _, _, _)
RECURSIVE WalkEntries(_, _, _, _)
Walk(dir, dirs, markers, patterns) ==
  IF dir # <<>> /\ RelPath(dir) \in Range(patterns) THEN <<>>
  ELSE WalkEntries(ListingOf(Entries(dir, dirs, markers)),
                   dirs, markers, patterns)

\* the loop over entries: a directory that is not ignored is walked, the
\* marker file pushes the path of the directory that holds it
WalkEntries(entries, dirs, markers, patterns) ==
  IF entries = <<>> THEN <<>>
  ELSE LET entry == entries[1]
           dir == SubSeq(entry.path, 1, Len(entry.path) - 1)
       IN  (IF entry.isDirectory
            THEN IF IsIgnored(RelPath(entry.path), entry.name, patterns)
                 THEN <<>>
                 ELSE Walk(entry.path, dirs, markers, patterns)
            ELSE IF entry.name = MarkerName THEN <<RelPath(dir)>>
            ELSE <<>>)
           \o WalkEntries(Tail(entries), dirs, markers, patterns)

findTerraformRoots(dirs, markers, patterns) ==
  SortStrings(Walk(<<>>, dirs, markers, patterns))

SegmentNames == {<<"a">>, <<"b">>}

\* directories that can exist below the scanned root
TreeDirs == SeqsOf(SegmentNames, 1, MaxDepth)

IgnorePatterns == {<<"a">>, <<"b">>, <<"a", "/", "b">>}

InitDiscover ==
  /\ pc = "input"
  /\ callArgs = [dirs |-> {}, markers |-> {}, patterns |-> <<>>]
  /\ callResult = NoResult
  /\ depsFile = Absent
  /\ commentBody = <<>> /\ calls = <<>> /\ opResult = NoResult
  /\ changedFiles = <<>> /\ rsResult = NoResult
  /\ targetsInput = <<>> /\ stResult = NoResult
  /\ roots = <<>> /\ tasks = <<>> /\ exitCode = -1 /\ writes = 0

\* a directory exists below an existing directory
MakeDirectory(d) ==
  /\ pc = "input"
  /\ d \notin callArgs.dirs
  /\ Cardinality(callArgs.dirs) < MaxTreeDirs
  /\ Len(d) = 1 \/ SubSeq(d, 1, Len(d) - 1) \in callArgs.dirs
  /\ callArgs' = [callArgs EXCEPT !.dirs = @ \cup {d}]
  /\ UNCHANGED <<pc, callResult, depsFile, changedFiles, rsResult,
                 commandVars, selectVars, buildVars>>

\* a directory, or the scanned root, holds a .terraform-version file
PlaceMarker(d) ==
  /\ pc = "input"
  /\ d \in callArgs.dirs \cup {<<>>}
  /\ d \notin callArgs.markers
  /\ callArgs' = [callArgs EXCEPT !.markers = @ \cup {d}]
  /\ UNCHANGED <<pc, callResult, depsFile, changedFiles, rsResult,
                 commandVars, selectVars, buildVars>>

\* one more pattern in the ignore set
AddIgnorePattern(p) ==
  /\ pc = "input"
  /\ p \notin Range(callArgs.patterns)
  /\ Len(callArgs.patterns) < MaxPatterns
  /\ callArgs' = [callArgs EXCEPT !.patterns = Append(@, p)]
  /\ UNCHANGED <<pc, callResult, depsFile, changedFiles, rsResult,
                 commandVars, selectVars, buildVars>>

FindTerraformRootsRun ==
  /\ pc = "input"
  /\ callResult' = findTerraformRoots(callArgs.dirs, callArgs.markers,
                                      callArgs.patterns)
  /\ pc' = "done"
  /\ UNCHANGED <<callArgs, depsFile, changedFiles, rsResult, commandVars,
                 selectVars, buildVars>>

NextDiscover ==
  \/ \E d \in TreeDirs : MakeDirectory(d)
  \/ \E d \in TreeDirs \cup {<<>>} : PlaceMarker(d)
  \/ \E p \in IgnorePatterns : AddIgnorePattern(p)
  \/ FindTerraformRootsRun

SpecDiscover == InitDiscover /\ [][NextDiscover]_vars

(***************************************************************************)
(* Properties of operate-command and the command parser                    *)
(***************************************************************************)
\* C1: run calls neither detectChanges nor selectTargets unless the parser
\* returned plan or apply: for a parser result of error it returns command
\* 'error', done = true and the parser's message, for help it returns the
\* help message with empty targets, in both cases with no collaborator call.
C1_NoCollaboratorUnlessPlanOrApply ==
  pc = "done" =>
    LET parsed == parseCommand(commentBody)
    IN  /\ calls # <<>> =>
             parsed # Null /\ parsed.command \in {"plan", "apply"}
        /\ (parsed # Null /\ parsed.command = "error") =>
             /\ calls = <<>>
             /\ opResult = [command |-> "error", targets |-> <<>>,
                            message |-> parsed.message, done |-> TRUE]
        /\ (parsed # Null /\ parsed.command = "help") =>
             /\ calls = <<>>
             /\ opResult.command = "help"
             /\ opResult.targets = <<>>
             /\ opResult.message = getHelpMessage

\* an apply command with an invalid target token has been run against a
\* workspace whose diff is non-empty, and nothing was called
C1_Witness ==
  /\ pc = "done"
  /\ parseCommand(commentBody) # Null
  /\ parseCommand(commentBody).command = "error"
  /\ changedFiles # <<>>
  /\ calls = <<>>
  /\ opResult.command = "error" /\ opResult.done

AllowedTargetChars == WordChars \cup {"-", "/"}

HasForeignChar(token) == \E i \in 1..Len(token) : token[i] \notin AllowedTargetChars

\* C2: for a first line starting with the tokens $terraform and apply or
\* plan, a later token with a character outside letters, digits, '_', '-'
\* and '/' makes parseCommand return action error with empty targets and a
\* message quoting the first such token; otherwise it returns the action
\* with all remaining tokens, in order, as targets, each of which matches
\* ^[A-Za-z0-9_/-]+$.
C2_FirstInvalidTokenAborts ==
  LET args == CommandArgs(commentBody)
      parsed == parseCommand(commentBody)
  IN  (/\ commentBody # <<>>
       /\ Len(args) >= 2
       /\ args[1] = TRIGGER
       /\ args[2] \in {APPLY, PLAN}) =>
        LET rest == SubSeq(args, 3, Len(args))
            bad == {i \in 1..Len(rest) : HasForeignChar(rest[i])}
        IN  IF bad # {}
            THEN /\ parsed.command = "error"
                 /\ parsed.targets = <<>>
                 /\ parsed.message.arg =
                      rest[CHOOSE i \in bad : \A j \in bad : i <= j]
            ELSE /\ parsed.command = (IF args[2] = APPLY THEN "apply" ELSE "plan")
                 /\ parsed.targets = rest
                 /\ \A i \in 1..Len(parsed.targets) :
                      /\ parsed.targets[i] # <<>>
                      /\ ~HasForeignChar(parsed.targets[i])

\* a valid target followed by an invalid token: the command is an error
\* quoting the second token, and the first target is not returned
C2_Witness ==
  LET args == CommandArgs(commentBody)
  IN  /\ Len(args) = 4
      /\ args[1] = TRIGGER /\ args[2] = APPLY
      /\ ~HasForeignChar(args[3]) /\ HasForeignChar(args[4])
      /\ parseCommand(commentBody).command = "error"
      /\ parseCommand(commentBody).message.arg = args[4]

\* C13: parseCommand returns null exactly when the text is empty, or its
\* first line has fewer than two tokens, or the first token is not the
\* trigger, or the second token is none of apply, plan, help; it returns the
\* error action only when the first two tokens were recognized and a later
\* token is invalid, so the two outcomes never coincide.
C13_NullAndErrorAreDisjoint ==
  pc \in {"done", "thrown"} =>
    LET parsed == parseCommand(commentBody)
        args == CommandArgs(commentBody)
        notACommand == \/ commentBody = <<>>
                       \/ Len(args) < 2
                       \/ args[1] # TRIGGER
                       \/ args[2] \notin {APPLY, PLAN, HELP}
    IN  /\ parsed = Null <=> notACommand
        /\ (parsed # Null /\ parsed.command = "error") =>
             /\ ~notACommand
             /\ \E i \in 3..Len(args) : HasForeignChar(args[i])

\* the trigger followed by an unknown action: ignored, not reported
C13_Witness ==
  /\ pc = "done"
  /\ LET args == CommandArgs(commentBody)
     IN  /\ Len(args) >= 2
         /\ args[1] = TRIGGER
         /\ args[2] \notin {APPLY, PLAN, HELP}
  /\ parseCommand(commentBody) = Null

\* what the collaborator chosen for a parsed plan or apply command returns
ChosenOutcome(parsed) ==
  IF parsed.targets # <<>>
  THEN selectTargets(Join(parsed.targets, Space), depsFile)
  ELSE detectChanges(changedFiles, depsFile)

\* C14: for a parsed plan or apply command run calls exactly one
\* collaborator exactly once: the validator, given the parsed targets joined
\* by single spaces, if and only if the target list is non-empty, otherwise
\* the resolver, given the base and head identifiers; a non-empty result is
\* returned with the parsed action and done = false.
C14_ExactlyOneCollaborator ==
  pc = "done" =>
    LET parsed == parseCommand(commentBody)
    IN  (parsed # Null /\ parsed.command \in {"plan", "apply"}) =>
          /\ Len(calls) = 1
          /\ calls[1].fn \in {"selectTargets", "detectChanges"}
          /\ calls[1].fn = "selectTargets" <=> parsed.targets # <<>>
          /\ parsed.targets # <<>> =>
               /\ SplitWs(calls[1].arg, 1) = parsed.targets
               /\ \A k \in 1..Len(calls[1].arg) - 1 :
                    ~(calls[1].arg[k] = " " /\ calls[1].arg[k + 1] = " ")
               /\ calls[1].arg[1] # " "
               /\ calls[1].arg[Len(calls[1].arg)] # " "
          /\ parsed.targets = <<>> =>
               calls[1].arg = <<"base-sha", "head-sha">>
          /\ LET outcome == ChosenOutcome(parsed)
             IN  (outcome.ok /\ outcome.value # <<>>) =>
                   opResult = [command |-> parsed.command,
                               targets |-> outcome.value,
                               message |-> EmptyMessage, done |-> FALSE]

\* an apply command with two targets went to the validator alone and
\* came back with both entries
C14_Witness ==
  /\ pc = "done"
  /\ LET parsed == parseCommand(commentBody)
     IN  /\ parsed # Null /\ parsed.command = "apply"
         /\ Len(parsed.targets) = 2
  /\ Len(calls) = 1 /\ calls[1].fn = "selectTargets"
  /\ opResult.command = "apply" /\ ~opResult.done
  /\ Len(opResult.targets) = 2

\* C15: text that is not a recognized command (the parser returns null) is
\* not reported as an error: the result's command value differs from the
\* value returned for a recognized but invalid command, which is 'error'.
C15_NotACommandIsNotAnError ==
  (pc = "done" /\ parseCommand(commentBody) = Null) =>
    opResult.command # "error"

\* C16: with its required arguments present run always resolves to a result:
\* when the parser returns null, when the chosen collaborator throws, or
\* when it returns an empty list, the result has command 'error', empty
\* targets and done = true, and its message is 'Not a valid command.', the
\* thrown error's message unchanged, or 'No Terraform directories matched
\* the criteria.' respectively.
C16_RunAlwaysResolves ==
  /\ pc = "thrown" => commentBody = <<>>
  /\ pc = "done" =>
    LET parsed == parseCommand(commentBody)
        failure(message) == [command |-> "error", targets |-> <<>>,
                             message |-> message, done |-> TRUE]
    IN  /\ opResult # NoResult
        /\ opResult.command \in {"error", "help", "plan", "apply"}
        /\ parsed = Null =>
             opResult = failure(Msg("Not a valid command.", <<>>))
        /\ (parsed # Null /\ parsed.command \in {"plan", "apply"}) =>
             LET outcome == ChosenOutcome(parsed)
             IN  /\ ~outcome.ok => opResult = failure(outcome.error)
                 /\ (outcome.ok /\ outcome.value = <<>>) =>
                      opResult = failure(
                        Msg("No Terraform directories matched the criteria.",
                            <<>>))

\* a plan command without targets whose collaborator threw because the
\* snapshot file is missing: the error's message is the result's message
C16_Witness ==
  /\ pc = "done"
  /\ LET parsed == parseCommand(commentBody)
     IN  /\ parsed # Null /\ parsed.command = "plan" /\ parsed.targets = <<>>
         /\ ~ChosenOutcome(parsed).ok
  /\ Len(calls) = 1
  /\ opResult = [command |-> "error", targets |-> <<>>,
                 message |-> Msg("File not found: ${filePath}", DepsFilePath),
                 done |-> TRUE]

\* C28: every result of run is of one of two shapes: done = false if and
\* only if command is 'plan' or 'apply', and then targets is non-empty and
\* message is empty; every other result is a help or error result with
\* empty targets and done = true.
C28_ResultShape ==
  pc = "done" =>
    /\ opResult.done = FALSE <=> opResult.command \in {"plan", "apply"}
    /\ opResult.command \in {"plan", "apply"} =>
         /\ opResult.targets # <<>>
         /\ opResult.message = Msg("", <<>>)
    /\ opResult.command \notin {"plan", "apply"} =>
         /\ opResult.command \in {"help", "error"}
         /\ opResult.targets = <<>>
         /\ opResult.done = TRUE

\* a plan command without targets over a non-empty diff came back unfinished
\* with the roots the resolver found
C28_Witness ==
  /\ pc = "done"
  /\ changedFiles # <<>>
  /\ Len(calls) = 1 /\ calls[1].fn = "detectChanges"
  /\ opResult.command = "plan" /\ opResult.done = FALSE
  /\ opResult.targets # <<>> /\ opResult.message = Msg("", <<>>)

\* the tokens the validator obtains from the string it is handed
HandedTokens(targets) == SplitWs(Join(targets, <<" ">>), 1)

\* C29: hand-off round trip: for every plan or apply command the parser
\* accepts, splitting on whitespace the string built by joining the parsed
\* targets with single spaces gives back the parsed target list: the same
\* count, and the same token at every position.
C29_HandOffRoundTrip ==
  pc = "done" =>
    LET parsed == parseCommand(commentBody)
    IN  (parsed # Null /\ parsed.command \in {"plan", "apply"}) =>
          LET tokens == HandedTokens(parsed.targets)
          IN  /\ Len(tokens) = Len(parsed.targets)
              /\ \A i \in 1..Len(parsed.targets) :
                   tokens[i] = parsed.targets[i]
              /\ \A i \in 1..Len(tokens) : ValidTarget(tokens[i])

\* a plan command naming two different targets has been handed over
C29_Witness ==
  /\ pc = "done"
  /\ LET parsed == parseCommand(commentBody)
     IN  /\ parsed # Null /\ parsed.command = "plan"
         /\ Len(parsed.targets) = 2
         /\ parsed.targets[1] # parsed.targets[2]
         /\ calls = <<[fn |-> "selectTargets",
                       arg |-> Join(parsed.targets, <<" ">>)]>>
         /\ Len(HandedTokens(parsed.targets)) = 2

(***************************************************************************)
(* Properties of the target validator                                      *)
(***************************************************************************)
GraphRootSet(g) == {g.dirs[i].path : i \in 1..Len(g.dirs)}

\* the targets that name no root of g, with or without one trailing slash
Unresolved(targets, g) ==
  SelectSeq(targets,
            LAMBDA t : /\ t \notin GraphRootSet(g)
                       /\ \A r \in GraphRootSet(g) : t # r \o Slash)

\* C3: target validation is all-or-nothing: with at least one unresolved
\* target selectTargets fails with a single error naming every unresolved
\* target and returns no matrix entry; it returns a matrix only when every
\* target resolved.
C3_AllOrNothing ==
  (pc = "done" /\ depsFile.state = "ok" /\ targetsInput # <<>>) =>
    LET targets == SplitWs(targetsInput, 1)
        missing == Unresolved(targets, depsFile.data)
    IN  IF missing # <<>>
        THEN /\ ~stResult.ok
             /\ stResult.error.arg = Join(missing, <<",", " ">>)
             /\ \A i \in 1..Len(missing) :
                  \E k \in 0..Len(stResult.error.arg) :
                    SubSeq(stResult.error.arg, k + 1, k + Len(missing[i]))
                      = missing[i]
        ELSE /\ stResult.ok
             /\ Len(stResult.value) = Len(targets)

\* one target resolved and two did not: the call failed
C3_Witness ==
  /\ pc = "done" /\ depsFile.state = "ok"
  /\ LET targets == SplitWs(targetsInput, 1)
         missing == Unresolved(targets, depsFile.data)
     IN  /\ Len(missing) = 2
         /\ Len(targets) = 3
  /\ ~stResult.ok

\* target t names root r: the path itself or the path plus one slash
ResolvesTo(t, r) == t = r \/ t = r \o Slash

\* C12: a target t resolves to root r exactly when t = r or t = r + '/';
\* the entry returned for 'r/' is the entry returned for 'r' (path r without
\* the slash and r's providers), and a target with two or more extra
\* trailing slashes is unresolved.
C12_TargetResolvesBySingleSlash ==
  (pc = "done" /\ depsFile.state = "ok" /\ targetsInput # <<>>) =>
    LET targets == SplitWs(targetsInput, 1)
        known == GraphRootSet(depsFile.data)
    IN  /\ stResult.ok <=>
             \A i \in 1..Len(targets) :
               \E r \in known : ResolvesTo(targets[i], r)
        /\ stResult.ok =>
             /\ Len(stResult.value) = Len(targets)
             /\ \A i \in 1..Len(targets) :
                  \E r \in known :
                    /\ ResolvesTo(targets[i], r)
                    /\ stResult.value[i] =
                         [path |-> r, providers |-> ProvidersFor(r)]
        /\ (\E i \in 1..Len(targets) :
              \E r \in known :
                /\ StartsWith(targets[i], r \o Slash \o Slash)
                /\ \A k \in Len(r) + 1..Len(targets[i]) : targets[i][k] = "/")
           => ~stResult.ok

\* a root given with and without the trailing slash yields the same entry
C12_Witness ==
  /\ pc = "done" /\ depsFile.state = "ok"
  /\ LET targets == SplitWs(targetsInput, 1)
     IN  /\ Len(targets) = 2
         /\ targets[1] = targets[2] \o Slash
  /\ stResult.ok
  /\ stResult.value[1] = stResult.value[2]
  /\ stResult.value[1].path \o Slash = SplitWs(targetsInput, 1)[1]

\* C27: the matrix returned by selectTargets contains each root path at most
\* once, for every targets input, including one that names the same root
\* twice or once as 'r' and once as 'r/'.
C27_MatrixHasNoDuplicateRoot ==
  (pc = "done" /\ stResult # NoResult /\ stResult.ok) =>
    NoDuplicates([i \in 1..Len(stResult.value) |-> stResult.value[i].path])

(***************************************************************************)
(* Properties of snapshot loading                                          *)
(***************************************************************************)
\* the outcome of whichever entry point ran
LoadOutcome == IF stResult # NoResult THEN stResult ELSE rsResult

\* C17: loading the snapshot fails with two distinct, labeled errors, 'File
\* not found: <path>' when the file is absent and 'Failed to decode JSON from
\* <path>' when its content is malformed; in either case detectChanges and
\* selectTargets propagate that error and return no matrix entries.
C17_LoadErrorsAreLabeledAndPropagated ==
  pc = "done" =>
    LET notFound == Msg("File not found: ${filePath}", DepsFilePath)
        undecodable ==
          Msg("Failed to decode JSON from ${filePath}: ${error.message}",
              DepsFilePath)
    IN  /\ notFound # undecodable
        /\ depsFile.state = "absent" => LoadOutcome = Err(notFound)
        /\ depsFile.state = "malformed" => LoadOutcome = Err(undecodable)
        /\ depsFile.state \in {"absent", "malformed"} =>
             /\ ~LoadOutcome.ok
             /\ "value" \notin DOMAIN LoadOutcome
             /\ LoadOutcome.error.arg = DepsFilePath
             /\ LoadOutcome = loadJson(depsFile, DepsFilePath)

\* detectChanges ran on a diff with two files against a malformed snapshot
C17_Witness ==
  /\ pc = "done" /\ depsFile = Malformed
  /\ Len(changedFiles) = 2
  /\ stResult = NoResult
  /\ ~rsResult.ok
  /\ rsResult.error.text =
       "Failed to decode JSON from ${filePath}: ${error.message}"

(***************************************************************************)
(* Properties of the change impact resolver                                *)
(***************************************************************************)
OutPaths == [i \in 1..Len(rsResult.value) |-> rsResult.value[i].path]

UnderNoRoot(f, g) == \A r \in GraphRootSet(g) : ~StartsWith(f, r \o Slash)

\* the matching module with the longest source, for a file under no root
LongestModule(f, g) ==
  LET matching == {i \in 1..Len(g.modules) :
                     StartsWith(f, g.modules[i].source \o Slash)}
  IN  IF matching = {} THEN 0
      ELSE CHOOSE i \in matching :
             \A j \in matching :
               Len(g.modules[j].source) <= Len(g.modules[i].source)

\* the changed files that lie under no root of the graph
FilesUnderNoRoot ==
  {k \in 1..Len(changedFiles) : UnderNoRoot(changedFiles[k], depsFile.data)}

\* the files under no root exist and all map to the module at index m
AllMapTo(m) ==
  /\ FilesUnderNoRoot # {}
  /\ \A k \in FilesUnderNoRoot :
       LongestModule(changedFiles[k], depsFile.data) = m

\* for each changed file under a root, the first entry of dirs containing it
FirstContainingRoots ==
  {depsFile.data.dirs[i].path :
     i \in {j \in 1..Len(depsFile.data.dirs) :
              \E k \in 1..Len(changedFiles) :
                /\ StartsWith(changedFiles[k],
                              depsFile.data.dirs[j].path \o Slash)
                /\ \A h \in 1..(j - 1) :
                     ~StartsWith(changedFiles[k],
                                 depsFile.data.dirs[h].path \o Slash)}}

\* C6 as stated: when the changed files that lie under no root all map to
\* one module M, the result is exactly the roots listed in M's usedIn, each
\* exactly once, and no other root.
C6_OnlyConsumersReturned ==
  pc = "done" =>
    \A m \in 1..Len(depsFile.data.modules) :
      AllMapTo(m) =>
        /\ Range(OutPaths) = Range(depsFile.data.modules[m].usedIn)
        /\ NoDuplicates(OutPaths)

\* C6: when the changed files that lie under no root all map to one module
\* M, the result is exactly the roots listed in M's usedIn together with,
\* for every changed file that lies under a root, the first root of dirs
\* containing it; each of these is returned exactly once, however many
\* changed files map to M, and no other root is returned.
C6_ModuleChangeYieldsItsConsumers ==
  pc = "done" =>
    \A m \in 1..Len(depsFile.data.modules) :
      AllMapTo(m) =>
        /\ Range(OutPaths) =
             Range(depsFile.data.modules[m].usedIn) \cup FirstContainingRoots
        /\ NoDuplicates(OutPaths)

\* one file under a root and one file of a module consumed by another root:
\* both the root and the consumer are returned
C6_Witness ==
  /\ pc = "done" /\ Len(changedFiles) = 2
  /\ Cardinality(FilesUnderNoRoot) = 1
  /\ \E m \in 1..Len(depsFile.data.modules) :
       /\ AllMapTo(m)
       /\ FirstContainingRoots # {}
       /\ FirstContainingRoots \cap Range(depsFile.data.modules[m].usedIn) = {}
       /\ Range(OutPaths) =
            Range(depsFile.data.modules[m].usedIn) \cup FirstContainingRoots
  /\ Len(OutPaths) >= 2

\* C11: when no changed file starts with root + '/' for a root of the graph
\* or with source + '/' for a module of the graph, the resolver returns the
\* empty list; a file under a directory that is a root on disk but is not
\* listed in the graph is such a file.
C11_UnrelatedFilesYieldNothing ==
  (pc = "done"
   /\ \A k \in 1..Len(changedFiles) :
        /\ UnderNoRoot(changedFiles[k], depsFile.data)
        /\ LongestModule(changedFiles[k], depsFile.data) = 0)
  => rsResult = Ok(<<>>)

\* two unrelated files, one of them under a root the graph does not list,
\* resolved against a graph that has roots and modules
C11_Witness ==
  /\ pc = "done" /\ Len(changedFiles) = 2
  /\ depsFile.data.dirs # <<>> /\ depsFile.data.modules # <<>>
  /\ \A k \in 1..Len(changedFiles) :
       /\ UnderNoRoot(changedFiles[k], depsFile.data)
       /\ LongestModule(changedFiles[k], depsFile.data) = 0
  /\ \E k \in 1..Len(changedFiles) :
       \E r \in RootPaths \ GraphRootSet(depsFile.data) :
         StartsWith(changedFiles[k], r \o Slash)
  /\ rsResult = Ok(<<>>)

\* the consumers of the longest module matching each changed file
LongestModuleConsumers ==
  UNION {Range(depsFile.data.modules[
                 LongestModule(changedFiles[k], depsFile.data)].usedIn) :
           k \in {j \in 1..Len(changedFiles) :
                    LongestModule(changedFiles[j], depsFile.data) # 0}}

\* C24: for a changed file that lies under no root at most one module is
\* recorded, the matching module with the longest source: a file under
\* module A and under a module B nested inside A adds only B's consumers,
\* never A's.
C24_LongestModuleWins ==
  (pc = "done"
   /\ \A k \in 1..Len(changedFiles) :
        UnderNoRoot(changedFiles[k], depsFile.data))
  => Range(OutPaths) = LongestModuleConsumers

\* one file under a module and under a module nested in it, with different
\* consumers: only the nested module's consumer is reported
C24_Witness ==
  /\ pc = "done" /\ Len(changedFiles) = 1
  /\ UnderNoRoot(changedFiles[1], depsFile.data)
  /\ Len(depsFile.data.modules) = 2
  /\ \A m \in 1..2 :
       StartsWith(changedFiles[1], depsFile.data.modules[m].source \o Slash)
  /\ \E m \in 1..2 :
       /\ m # LongestModule(changedFiles[1], depsFile.data)
       /\ \E p \in Range(depsFile.data.modules[m].usedIn) :
            p \notin Range(OutPaths)
  /\ Len(OutPaths) = 1

\* C7: the resolver's output never contains the same root path twice.
C7_NoDuplicateRoot == pc = "done" => NoDuplicates(OutPaths)

\* a root is affected by a file directly under it and by a changed module
\* that lists it as consumer, and is reported once
C7_Witness ==
  /\ pc = "done"
  /\ \E r \in GraphRootSet(depsFile.data) :
       /\ \E k \in 1..Len(changedFiles) :
            StartsWith(changedFiles[k], r \o Slash)
       /\ \E k \in 1..Len(changedFiles) :
            /\ UnderNoRoot(changedFiles[k], depsFile.data)
            /\ LongestModule(changedFiles[k], depsFile.data) # 0
            /\ r \in Range(depsFile.data.modules[
                   LongestModule(changedFiles[k], depsFile.data)].usedIn)
       /\ Cardinality({i \in 1..Len(OutPaths) : OutPaths[i] = r}) = 1

\* the roots matched directly by some changed file
DirectRoots ==
  {r \in GraphRootSet(depsFile.data) :
     \E k \in 1..Len(changedFiles) : StartsWith(changedFiles[k], r \o Slash)}

\* C8: root match takes precedence over module match: a changed file under
\* a known root is never used for module matching, so every reported root is
\* either matched directly or a consumer of a module matched by a changed
\* file that lies under no root.
C8_RootMatchPrecedesModuleMatch ==
  pc = "done" =>
    \A i \in 1..Len(OutPaths) :
      \/ OutPaths[i] \in DirectRoots
      \/ \E m \in 1..Len(depsFile.data.modules), k \in 1..Len(changedFiles) :
           /\ OutPaths[i] \in Range(depsFile.data.modules[m].usedIn)
           /\ UnderNoRoot(changedFiles[k], depsFile.data)
           /\ StartsWith(changedFiles[k],
                         depsFile.data.modules[m].source \o Slash)

\* the only changed file is under a root and under a module source, and a
\* consumer of that module is not reported
C8_Witness ==
  /\ pc = "done" /\ Len(changedFiles) = 1
  /\ ~UnderNoRoot(changedFiles[1], depsFile.data)
  /\ \E m \in 1..Len(depsFile.data.modules) :
       /\ StartsWith(changedFiles[1], depsFile.data.modules[m].source \o Slash)
       /\ \E p \in Range(depsFile.data.modules[m].usedIn) :
            p \notin Range(OutPaths)
  /\ Len(OutPaths) = 1

\* C9: for every changed file f and every root R of the graph such that f
\* starts with R + '/', R is in the resolver's output, also when R is nested
\* inside (or contains) another known root.
C9_EveryContainingRootReported ==
  pc = "done" => DirectRoots \subseteq Range(OutPaths)

\* C10: the list returned by the resolver is sorted ascending by root path.
C10_OutputSortedByPath ==
  pc = "done" =>
    \A i, j \in 1..Len(OutPaths) :
      i < j => ~StrLess(OutPaths[j], OutPaths[i])

\* C30: every entry the resolver returns names a root that is present in the
\* loaded graph's dirs and carries the providers recorded for that root,
\* also when a module's usedIn lists a path that is not in dirs.
C30_EveryEntryIsAGraphRoot ==
  pc = "done" =>
    \A i \in 1..Len(rsResult.value) :
      \E d \in 1..Len(depsFile.data.dirs) :
        /\ depsFile.data.dirs[d].path = rsResult.value[i].path
        /\ depsFile.data.dirs[d].providers = rsResult.value[i].providers

(***************************************************************************)
(* Properties of the graph builder                                         *)
(***************************************************************************)
IsFailedTask(t) == t.status # "success"

\* C4: the builder fails closed: with at least one failed root no snapshot
\* is written, the existing snapshot is unchanged and the exit status is 1;
\* the snapshot is written only when every root's result is successful.
C4_FailClosed ==
  [][/\ (\E i \in 1..Len(tasks') : IsFailedTask(tasks'[i])) =>
          /\ depsFile' = depsFile
          /\ callResult' = NoResult
          /\ writes' = 0
          /\ pc' = "exited" => exitCode' = 1
     /\ (writes' # writes \/ depsFile' # depsFile
         \/ callResult' # callResult) =>
          /\ \A i \in 1..Len(tasks) :
               tasks[i].phase = "done" /\ ~IsFailedTask(tasks[i])
          /\ exitCode' = 0]_vars

\* one root failed and another succeeded with modules and providers; the
\* build exited 1 with the old snapshot in place
C4_Witness ==
  /\ pc = "exited" /\ exitCode = 1 /\ writes = 0
  /\ depsFile = Snapshot(G0) /\ callResult = NoResult
  /\ \E i, j \in 1..Len(tasks) :
       /\ IsFailedTask(tasks[i])
       /\ ~IsFailedTask(tasks[j])
       /\ tasks[j].modules # <<>> /\ tasks[j].providers # <<>>

\* C5: a root's analysis is marked failed for each failure kind (init call,
\* module-list or provider-schema invocation, undecodable output), so that
\* any of them prevents the snapshot from being written; no such failure
\* leaves the root with status success.
C5_EveryFailureMarksRootFailed ==
  /\ \A i \in 1..Len(tasks) :
       (tasks[i].phase = "done" /\ tasks[i].logs # <<>>) =>
         tasks[i].status = "error"
  /\ (\E i \in 1..Len(tasks) : tasks[i].logs # <<>>) => writes = 0


(***************************************************************************)
(* Properties of the written snapshot                                      *)
(***************************************************************************)
SnapshotPaths ==
  [i \in 1..Len(callResult.data.dirs) |-> callResult.data.dirs[i].path]

SnapshotSources ==
  [i \in 1..Len(callResult.data.modules) |-> callResult.data.modules[i].source]

StrictlySorted(list) ==
  \A i, j \in 1..Len(list) : i < j => StrLess(list[i], list[j])

\* C18: the written snapshot is a function of the set of per-root analysis
\* results only: whatever the completion order of the per-root tasks and the
\* order of the results list, dirs holds one entry per result sorted by
\* path, modules one entry per used module sorted by source, and each usedIn
\* the consuming roots in sorted order.
C18_SnapshotDependsOnResultSetOnly ==
  (pc = "exited" /\ writes = 1) =>
    LET S == Range(Results)
        g == callResult.data
    IN  /\ StrictlySorted(SnapshotPaths)
        /\ Range(g.dirs) =
             {[path |-> r.root, providers |-> r.providers] : r \in S}
        /\ StrictlySorted(SnapshotSources)
        /\ Range(SnapshotSources) = UNION {Range(r.modules) : r \in S}
        /\ \A m \in 1..Len(g.modules) :
             /\ StrictlySorted(g.modules[m].usedIn)
             /\ Range(g.modules[m].usedIn) =
                  {r.root : r \in {q \in S :
                                     g.modules[m].source \in Range(q.modules)}}

\* two roots analysed, two modules in use, one of them by both roots
C18_Witness ==
  /\ pc = "exited" /\ writes = 1
  /\ Len(callResult.data.dirs) = 2
  /\ Len(callResult.data.modules) = 2
  /\ \E m \in 1..2 : Len(callResult.data.modules[m].usedIn) = 2
  /\ \E m \in 1..2 : Len(callResult.data.modules[m].usedIn) = 1

\* C19: every written snapshot is well formed: root paths in dirs are
\* pairwise distinct, module sources are pairwise distinct, every module
\* has a non-empty usedIn, and every path in a usedIn is the path of an
\* entry in dirs of the same snapshot.
C19_SnapshotWellFormed ==
  (pc = "exited" /\ writes = 1) =>
    /\ NoDuplicates(SnapshotPaths)
    /\ NoDuplicates(SnapshotSources)
    /\ \A m \in 1..Len(callResult.data.modules) :
         /\ callResult.data.modules[m].usedIn # <<>>
         /\ Range(callResult.data.modules[m].usedIn) \subseteq
              Range(SnapshotPaths)

\* a written snapshot whose module is consumed by a root without providers
C19_Witness ==
  /\ pc = "exited" /\ writes = 1
  /\ \E m \in 1..Len(callResult.data.modules) :
       \E d \in 1..Len(callResult.data.dirs) :
         /\ callResult.data.dirs[d].path
              \in Range(callResult.data.modules[m].usedIn)
         /\ callResult.data.dirs[d].providers = <<>>


(***************************************************************************)
(* Properties of local module resolution                                   *)
(***************************************************************************)
\* abs lies strictly inside the workspace
StrictlyInside(abs) ==
  /\ Len(abs) > Len(WorkspaceRoot)
  /\ SubSeq(abs, 1, Len(WorkspaceRoot)) = WorkspaceRoot

\* the workspace-relative spelling of a path inside the workspace
InsidePath(abs) == Join(SubSeq(abs, Len(WorkspaceRoot) + 1, Len(abs)), Slash)

EntryCandidate(e) ==
  CandidatePath(RootAbs, e.source, e.dir, WorkspaceRoot, callArgs.repoName)

EntryResult(e) ==
  resolveLocalModule(RootAbs, e.source, e.dir, WorkspaceRoot,
                     callArgs.repoName, callArgs.disk)

\* C20: resolveLocalModule returns a path only if the candidate exists on
\* disk and lies strictly inside the workspace; a candidate that resolves
\* outside the workspace or does not exist yields null and never appears as
\* a module source among the extracted modules.
C20_OnlyExistingPathsInsideWorkspace ==
  pc = "done" =>
    /\ \A i \in 1..Len(callArgs.entries) :
         LET e == callArgs.entries[i]
             candidate == EntryCandidate(e)
             result == EntryResult(e)
         IN  /\ result # Null =>
                  /\ candidate # Null
                  /\ candidate.abs \in callArgs.disk
                  /\ StrictlyInside(candidate.abs)
                  /\ result.path = InsidePath(candidate.abs)
             /\ (candidate # Null
                 /\ (candidate.abs \notin callArgs.disk
                     \/ ~StrictlyInside(candidate.abs))) =>
                  /\ result = Null
                  /\ relative(WorkspaceRoot, candidate.abs)
                       \notin Range(callResult)
    /\ \A k \in 1..Len(callResult) :
         LET abs == WorkspaceRoot \o PathSegments(callResult[k])
         IN  /\ abs \in callArgs.disk
             /\ StrictlyInside(abs)
             /\ DotDot \notin Range(PathSegments(callResult[k]))

\* one entry escapes the workspace to a directory that exists, another
\* names an existing directory inside it: only the second is extracted
C20_Witness ==
  /\ pc = "done" /\ Len(callArgs.entries) = 2
  /\ \E i \in 1..2 :
       LET candidate == EntryCandidate(callArgs.entries[i])
       IN  /\ candidate # Null
           /\ candidate.abs \in callArgs.disk
           /\ ~StrictlyInside(candidate.abs)
           /\ candidate.abs # WorkspaceRoot
           /\ EntryResult(callArgs.entries[i]) = Null
  /\ \E i \in 1..2 : EntryResult(callArgs.entries[i]) # Null
  /\ Len(callResult) = 1


(***************************************************************************)
(* Properties of the detect-changes command                                *)
(***************************************************************************)
\* C21: when detect-changes is run with --deps-file naming a loadable graph
\* file, the affected roots are computed against that graph; the workspace
\* snapshot .tfdeps.json is used only when --deps-file is not given.
C21_DepsFileOptionIsHonoured ==
  (pc = "done" /\ callArgs.depsFile.given
   /\ callArgs.depsFile.file.state = "ok") =>
    rsResult = Ok(calculateExecutionPaths(changedFiles,
                                          callArgs.depsFile.file.data))


(***************************************************************************)
(* Properties of the ignore file and of root discovery                     *)
(***************************************************************************)
\* the whitespace-separated patterns of the lines that are not comments
WhitespaceSeparatedPatterns(content) ==
  LET lines == Split(content, <<"\n">>)
  IN  UNION {IF StartsWith(Trim(lines[i]), <<"#">>) THEN {}
             ELSE Range(SplitWs(lines[i], 1)) : i \in 1..Len(lines)}

\* C22: the ignore file is read as whitespace-separated patterns: two
\* patterns separated by spaces or tabs on one line are two patterns, blank
\* lines are ignored and lines starting with '#' are ignored.
C22_IgnoreFileIsWhitespaceSeparated ==
  (pc = "done" /\ callArgs.exists) =>
    Range(callResult) = WhitespaceSeparatedPatterns(callArgs.content)


(***************************************************************************)
(* Properties of the authorizer                                            *)
(***************************************************************************)
\* the roles whose user list contains the actor
ListedRoles ==
  {callArgs.file.data[i].role : i \in
     {k \in 1..Len(callArgs.file.data) :
        /\ callArgs.file.data[k].users.isArray
        /\ callArgs.actor \in Range(callArgs.file.data[k].users.items)}}

\* C23: resolveRoles returns exactly the role names whose user list contains
\* the actor, and ['planner'] when the actor is in no list or the permission
\* file does not exist; the result is never empty, and it contains 'applier'
\* only if the actor is listed under 'applier'.
C23_RolesAreThoseListingTheActor ==
  pc = "done" =>
    /\ callArgs.file.state = "absent" => callResult = Ok(<<"planner">>)
    /\ callArgs.file.state = "ok" =>
         /\ callResult.ok
         /\ IF ListedRoles = {}
            THEN callResult.value = <<"planner">>
            ELSE /\ Range(callResult.value) = ListedRoles
                 /\ NoDuplicates(callResult.value)
    /\ callResult.ok =>
         /\ callResult.value # <<>>
         /\ "applier" \in Range(callResult.value) =>
              /\ callArgs.file.state = "ok"
              /\ "applier" \in ListedRoles

\* the actor is named by a value that is not a list and by no list: planner
C23_Witness ==
  /\ pc = "done" /\ callArgs.file.state = "ok"
  /\ Len(callArgs.file.data) = 2
  /\ \E i \in 1..2 :
       /\ callArgs.file.data[i].role = "applier"
       /\ ~callArgs.file.data[i].users.isArray
       /\ callArgs.actor \in Range(callArgs.file.data[i].users.items)
  /\ ListedRoles = {}
  /\ callResult = Ok(<<"planner">>)


\* some step of the analysis task of root i
TaskStep(i) ==
  \/ \E o \in InitOutcomes : InitializeRoot(i, o)
  \/ \E out \in {ToolFailed, ToolMalformed}
                  \cup {ToolOutput(l) : l \in ModuleOutputs} :
       ModulesReturn(i, out)
  \/ \E out \in {ToolFailed, ToolMalformed}
                  \cup {ToolOutput(l) : l \in ProviderOutputs} :
       ProvidersReturn(i, out)
  \/ FinishRoot(i)

\* C25: one analysis task is started for every discovered root; in every
\* interleaving a failure of one root's task neither cancels another root's
\* task nor changes its result, every task can run to completion, and
\* aggregation, with the decision that the build failed, happens only after
\* all tasks have completed.
C25_NoCancellationBeforeBarrier ==
  /\ [](pc = "analysis" =>
          /\ Len(tasks) = Len(roots)
          /\ \A i \in 1..Len(tasks) :
               /\ tasks[i].root = roots[i]
               /\ tasks[i].phase # "done" => ENABLED TaskStep(i))
  /\ [][pc = "analysis" =>
          /\ \A i \in 1..Len(tasks) :
               tasks'[i] # tasks[i] =>
                 /\ tasks[i].phase # "done"
                 /\ \A j \in 1..Len(tasks) : j # i => tasks'[j] = tasks[j]
          /\ (pc' = "exited" \/ exitCode' # exitCode
              \/ writes' # writes \/ depsFile' # depsFile) =>
               /\ \A i \in 1..Len(tasks) : tasks[i].phase = "done"
               /\ tasks' = tasks]_vars

\* one root's initialization has failed while the task of another root is
\* in the middle of its extraction
C25_Witness ==
  /\ pc = "analysis" /\ Len(tasks) = 2
  /\ \E i, j \in 1..2 :
       /\ tasks[i].status = "error" /\ tasks[i].phase = "done"
       /\ tasks[j].phase = "extract"
       /\ tasks[j].modulesDone /\ tasks[j].modules # <<>>
       /\ ~tasks[j].providersDone

\* d is a pattern, lies under one, or has a segment named like one
Excluded(d) ==
  \E i \in 1..Len(callArgs.patterns) :
    LET p == callArgs.patterns[i]
    IN  \/ RelPath(d) = p
        \/ StartsWith(RelPath(d), p \o Slash)
        \/ \E k \in 1..Len(d) : d[k] = p

\* C26: root discovery never visits an ignored directory or anything below
\* it: no returned root equals an ignore pattern, is nested under one, or has
\* a path component at any depth whose name equals one; every other
\* directory that contains the .terraform-version file is returned exactly
\* once.
C26_IgnoredDirectoriesAreNeverRoots ==
  pc = "done" =>
    /\ \A i \in 1..Len(callResult) :
         \A k \in 1..Len(callArgs.patterns) :
           LET p == callArgs.patterns[k]
           IN  /\ callResult[i] # p
               /\ ~StartsWith(callResult[i], p \o Slash)
               /\ p \notin Range(Split(callResult[i], Slash))
    /\ Range(callResult) =
         {RelPath(d) : d \in {m \in callArgs.markers : ~Excluded(m)}}
    /\ NoDuplicates(callResult)

\* a marked directory two levels down is skipped because of its bare name
\* while its marked parent is returned
C26_Witness ==
  /\ pc = "done"
  /\ \E d \in callArgs.markers :
       /\ Len(d) = 2
       /\ d[2] \in Range(callArgs.patterns)
       /\ RelPath(d) \notin Range(callArgs.patterns)
       /\ <<d[1]>> \in callArgs.markers
       /\ RelPath(d) \notin Range(callResult)
       /\ d[1] \in Range(callResult)

====
